---- MODULE Spec2Model ----
(***************************************************************************)
(* Model of the motion-data processing functions of the skeleton utilities *)
(* (src/unnamed/part_001): applyLengthConstraints (solve),                 *)
(* blendMarkerAndMarkerlessData (fuse), fillMissingMarkers (fillMissing),  *)
(* synchronizeData (align) and applyTemporalSmoothing (smooth).            *)
(*                                                                         *)
(* Numbers.  A JavaScript number is modelled as an exact rational <<n, d>> *)
(* in lowest terms with d > 0, extended with the three IEEE specials the   *)
(* code can produce: NaN = <<0,0>>, +Infinity = <<1,0>>, -Infinity =       *)
(* <<-1,0>>.  Rounding and signed zero are not modelled.  Math.sqrt is     *)
(* exact on squares of rationals and has no value elsewhere, so the inputs *)
(* are drawn from layouts whose distances are rational.                    *)
(*                                                                         *)
(* Objects.  The only objects the functions write to are marker maps       *)
(* (Record<string, sample>): heap maps the address of each marker map to   *)
(* its contents, a Frame is a record holding the address of its marker     *)
(* map.  Samples, frames, joints and arrays are never written by the code  *)
(* after construction and are modelled as values.                          *)
(***************************************************************************)
EXTENDS Integers, Sequences, FiniteSets, TLC

VARIABLES heap, seqA, seqB, joints, orig, call, out

vars == <<heap, seqA, seqB, joints, orig, call, out>>

----------------------------------------------------------------------------
(* JavaScript numbers *)

Abs(i) == IF i < 0 THEN -i ELSE i

Sgn(i) == IF i < 0 THEN -1 ELSE IF i > 0 THEN 1 ELSE 0

RECURSIVE GCD(_, _)
GCD(a, b) == IF b = 0 THEN a ELSE GCD(b, a % b)

\* the number n/d in canonical form; d = 0 gives NaN or a signed Infinity
Norm(n, d) ==
  IF d = 0 THEN <<Sgn(n), 0>>
  ELSE LET g == GCD(Abs(n), Abs(d))
       IN  <<(Sgn(d) * n) \div g, Abs(d) \div g>>

NaN == <<0, 0>>
PosInf == <<1, 0>>
NegInf == <<-1, 0>>

Num(i) == <<i, 1>>
Frac(n, d) == Norm(n, d)
Zero == <<0, 1>>
One == <<1, 1>>
Half == <<1, 2>>

IsNaN(a) == a = NaN
IsFinite(a) == a[2] # 0

Neg(a) == <<-a[1], a[2]>>

Add(a, b) ==
  IF IsNaN(a) \/ IsNaN(b) THEN NaN
  ELSE IF ~IsFinite(a) /\ ~IsFinite(b) THEN (IF a = b THEN a ELSE NaN)
  ELSE IF ~IsFinite(a) THEN a
  ELSE IF ~IsFinite(b) THEN b
  ELSE LET g == GCD(a[2], b[2])
       IN  Norm(a[1] * (b[2] \div g) + b[1] * (a[2] \div g), (a[2] \div g) * b[2])

Sub(a, b) == Add(a, Neg(b))

\* the product, with the common factors removed before multiplying
Mul(a, b) ==
  IF ~IsFinite(a) \/ ~IsFinite(b) THEN <<Sgn(a[1] * b[1]), 0>>
  ELSE LET g1 == GCD(Abs(a[1]), b[2])
           g2 == GCD(Abs(b[1]), a[2])
       IN  Norm((a[1] \div g1) * (b[1] \div g2), (a[2] \div g2) * (b[2] \div g1))

Div(a, b) ==
  IF IsNaN(a) \/ IsNaN(b) THEN NaN
  ELSE IF b[1] = 0 THEN <<Sgn(a[1]), 0>>
  ELSE IF ~IsFinite(b) THEN (IF IsFinite(a) THEN <<0, 1>> ELSE NaN)
  ELSE IF ~IsFinite(a) THEN <<a[1] * Sgn(b[1]), 0>>
  ELSE Mul(a, <<Sgn(b[1]) * b[2], Abs(b[1])>>)

\* a < b, a > b as JavaScript evaluates them: false when either is NaN
Lt(a, b) ==
  IF IsNaN(a) \/ IsNaN(b) THEN FALSE
  ELSE IF ~IsFinite(a) /\ ~IsFinite(b) THEN a[1] < b[1]
  ELSE a[1] * b[2] < b[1] * a[2]

Gt(a, b) == Lt(b, a)

\* Math.max of two numbers
MathMax(a, b) ==
  IF IsNaN(a) \/ IsNaN(b) THEN NaN ELSE IF Lt(a, b) THEN b ELSE a

\* Math.floor(i / k) for integers i >= 0, k > 0
Floor(i, k) == i \div k

RECURSIVE NewtonSqrt(_, _)
\* Newton's iteration down from r >= sqrt(n) to the integer part of sqrt(n)
NewtonSqrt(n, r) ==
  LET next == (r + n \div r) \div 2
  IN  IF next >= r THEN r ELSE NewtonSqrt(n, next)

\* the integer r with r * r = n; no value (CHOOSE over the empty set) when n
\* is not a perfect square
ISqrt(n) ==
  IF n = 0 THEN 0
  ELSE LET r == NewtonSqrt(n, n)
       IN  CHOOSE x \in {y \in {r} : y * y = n} : TRUE

\* Math.sqrt, exact; no value when the argument is not a square of a rational
MathSqrt(a) ==
  IF IsNaN(a) \/ a[1] < 0 THEN NaN
  ELSE IF ~IsFinite(a) THEN PosInf
  ELSE <<ISqrt(a[1]), ISqrt(a[2])>>

\* truthiness of `x` tests in the code is on objects only; numbers are compared
AbsNum(a) == <<Abs(a[1]), a[2]>>

----------------------------------------------------------------------------
(* Geometry *)

\* the largest rational f > 0 of which the finite numbers a and b, not both 0,
\* are integer multiples
CommonFactor(a, b) ==
  Norm(GCD(Abs(a[1]) * (b[2] \div GCD(a[2], b[2])),
           Abs(b[1]) * (a[2] \div GCD(a[2], b[2]))),
       (a[2] \div GCD(a[2], b[2])) * b[2])

\* sqrt(a^2 + b^2) = f * sqrt((a/f)^2 + (b/f)^2): the same number, with the
\* squares taken of small integers so that they stay within TLC's integers
ScaledRoot(a, b, f) ==
  Mul(f, MathSqrt(Add(Mul(Div(a, f), Div(a, f)), Mul(Div(b, f), Div(b, f)))))

\* Math.sqrt(Math.pow(dx, 2) + Math.pow(dy, 2))
RootOfSquares(dx, dy) ==
  IF IsFinite(dx) /\ IsFinite(dy) /\ (dx # Zero \/ dy # Zero)
  THEN ScaledRoot(dx, dy, CommonFactor(dx, dy))
  ELSE MathSqrt(Add(Mul(dx, dx), Mul(dy, dy)))

calculateDistance(p1, p2) == RootOfSquares(Sub(p2.x, p1.x), Sub(p2.y, p1.y))

----------------------------------------------------------------------------
(* Objects *)

Keys == {"A", "B", "C", "D"}

\* frame.markers[k] is an object (truthy), not undefined
Has(m, k) == k \in DOMAIN m

Sample(x, y, c, v) == [x |-> x, y |-> y, confidence |-> c, isVisible |-> v]

Joint(s, e, len) ==
  [startMarkerId |-> s, endMarkerId |-> e, length |-> len, name |-> "joint"]

\* the address the next allocated marker map gets
NewAddr(h) == Cardinality(DOMAIN h) + 1

\* h with the marker map m stored at address a
Store(h, a, m) == (a :> m) @@ h

\* h after the assignment  <map at a>[k] = s
SetMarker(h, a, k, s) == Store(h, a, (k :> s) @@ h[a])

\* copyFrame without the inner spread: the new frame shares the marker map
copyFrameShared(h, frame) == [heap |-> h, frame |-> frame]

\* const newFrame = { ...frame, markers: { ...frame.markers } }: a frame with the
\* fields of `frame` whose marker map is a fresh object holding the same samples
copyFrame(h, frame) ==
  LET a == NewAddr(h)
  IN  [heap |-> Store(h, a, h[frame.markers]),
       frame |-> [frame EXCEPT !.markers = a]]

RECURSIVE SetToSeq(_)
\* the members of a set of strings in a fixed order (Object.entries order is
\* irrelevant to every loop of the code, which writes one key per entry)
SetToSeq(S) ==
  IF S = {} THEN <<>>
  ELSE LET k == CHOOSE x \in S : TRUE IN <<k>> \o SetToSeq(S \ {k})

----------------------------------------------------------------------------
(* initializeJointLengths *)

\* measureJoint taking the sum of the squares for the length, the root left out
measureJointSquared(m, joint) ==
  IF /\ Has(m, joint.startMarkerId) /\ Has(m, joint.endMarkerId)
     /\ m[joint.startMarkerId].isVisible /\ m[joint.endMarkerId].isVisible
  THEN [joint EXCEPT !.length =
          Mul(calculateDistance(m[joint.startMarkerId], m[joint.endMarkerId]),
              calculateDistance(m[joint.startMarkerId], m[joint.endMarkerId]))]
  ELSE joint

\* lines 16-24: the body of the joints.map for one joint; m is frame.markers
measureJoint(m, joint) ==
  IF /\ Has(m, joint.startMarkerId) /\ Has(m, joint.endMarkerId)
     /\ m[joint.startMarkerId].isVisible /\ m[joint.endMarkerId].isVisible
  THEN [joint EXCEPT !.length =
          calculateDistance(m[joint.startMarkerId], m[joint.endMarkerId])]
  ELSE joint

\* lines 14-26: a new list, each joint measured in the frame
initializeJointLengths(h, js, frame) ==
  [i \in 1..Len(js) |-> measureJoint(h[frame.markers], js[i])]

----------------------------------------------------------------------------
(* applyLengthConstraints *)

\* initGraph without the visibility test: one node per marker of the frame
initGraphOfAll(m) ==
  [k \in DOMAIN m |->
     [neighbors |-> <<>>,
      originalPosition |-> [x |-> m[k].x, y |-> m[k].y],
      newPosition |-> [x |-> m[k].x, y |-> m[k].y],
      weight |-> m[k].confidence]]

\* lines 42-51: one node per visible marker of the frame
initGraph(m) ==
  [k \in {j \in DOMAIN m : m[j].isVisible} |->
     [neighbors |-> <<>>,
      originalPosition |-> [x |-> m[k].x, y |-> m[k].y],
      newPosition |-> [x |-> m[k].x, y |-> m[k].y],
      weight |-> m[k].confidence]]

\* graph[id] = node, or a field of it, assigned
SetNode(graph, id, node) == (id :> node) @@ graph

\* graph[id].neighbors.push(other), when graph[id] exists (lines 62-68)
pushNeighbor(graph, id, other) ==
  IF id \in DOMAIN graph
  THEN SetNode(graph, id, [graph[id] EXCEPT !.neighbors = Append(@, other)])
  ELSE graph

\* lines 55-69: the body of the joints.forEach that records the connections
addConnection(graph, m, joint) ==
  IF /\ Has(m, joint.startMarkerId) /\ Has(m, joint.endMarkerId)
     /\ m[joint.startMarkerId].isVisible /\ m[joint.endMarkerId].isVisible
     /\ Gt(joint.length, Zero)
  THEN pushNeighbor(pushNeighbor(graph, joint.startMarkerId, joint.endMarkerId),
                    joint.endMarkerId, joint.startMarkerId)
  ELSE graph

RECURSIVE addConnections(_, _, _, _)
addConnections(graph, m, js, i) ==
  IF i > Len(js) THEN graph
  ELSE addConnections(addConnection(graph, m, js[i]), m, js, i + 1)

\* moveNodes with the two signs exchanged: the start endpoint moves along
\* (dx, dy) and the end endpoint against it
moveNodesInward(graph, joint, startPos, endPos, dx, dy, correction, startWeight, endWeight) ==
  SetNode(
    SetNode(graph, joint.startMarkerId,
      [graph[joint.startMarkerId] EXCEPT !.newPosition =
         [x |-> Add(startPos.x, Mul(Mul(Mul(dx, correction), startWeight), Half)),
          y |-> Add(startPos.y, Mul(Mul(Mul(dy, correction), startWeight), Half))]]),
    joint.endMarkerId,
    [graph[joint.endMarkerId] EXCEPT !.newPosition =
       [x |-> Sub(endPos.x, Mul(Mul(Mul(dx, correction), endWeight), Half)),
        y |-> Sub(endPos.y, Mul(Mul(Mul(dy, correction), endWeight), Half))]])

\* lines 101-109: both endpoints moved along (dx, dy) by their shares
moveNodes(graph, joint, startPos, endPos, dx, dy, correction, startWeight, endWeight) ==
  SetNode(
    SetNode(graph, joint.startMarkerId,
      [graph[joint.startMarkerId] EXCEPT !.newPosition =
         [x |-> Sub(startPos.x, Mul(Mul(Mul(dx, correction), startWeight), Half)),
          y |-> Sub(startPos.y, Mul(Mul(Mul(dy, correction), startWeight), Half))]]),
    joint.endMarkerId,
    [graph[joint.endMarkerId] EXCEPT !.newPosition =
       [x |-> Add(endPos.x, Mul(Mul(Mul(dx, correction), endWeight), Half)),
        y |-> Add(endPos.y, Mul(Mul(Mul(dy, correction), endWeight), Half))]])

\* weighNodes giving each endpoint its own confidence as its share
weighNodesByOwn(graph, joint, startPos, endPos, correction, sw, ew, totalWeight) ==
  moveNodes(graph, joint, startPos, endPos,
            Sub(endPos.x, startPos.x), Sub(endPos.y, startPos.y), correction,
            Div(sw, totalWeight), Div(ew, totalWeight))

\* weighNodes giving both endpoints the share 1/2 whatever their confidences
weighNodesEvenly(graph, joint, startPos, endPos, correction, sw, ew, totalWeight) ==
  moveNodes(graph, joint, startPos, endPos,
            Sub(endPos.x, startPos.x), Sub(endPos.y, startPos.y), correction,
            Half, Half)

\* lines 96-98: the shares of the correction, from the confidences
weighNodes(graph, joint, startPos, endPos, correction, sw, ew, totalWeight) ==
  moveNodes(graph, joint, startPos, endPos,
            Sub(endPos.x, startPos.x), Sub(endPos.y, startPos.y), correction,
            Div(ew, totalWeight), Div(sw, totalWeight))

\* correctNodes with the correction taken relative to the target length instead
\* of the current distance
correctNodesByLength(graph, joint, startNode, endNode, currentDistance) ==
  IF Gt(currentDistance, Zero)
  THEN weighNodes(graph, joint, startNode.newPosition, endNode.newPosition,
                  Div(Sub(joint.length, currentDistance), joint.length),
                  startNode.weight, endNode.weight,
                  Add(startNode.weight, endNode.weight))
  ELSE graph

\* lines 87-110: the correction of a joint whose endpoints are currentDistance apart
correctNodes(graph, joint, startNode, endNode, currentDistance) ==
  IF Gt(currentDistance, Zero)
  THEN weighNodes(graph, joint, startNode.newPosition, endNode.newPosition,
                  Div(Sub(joint.length, currentDistance), currentDistance),
                  startNode.weight, endNode.weight,
                  Add(startNode.weight, endNode.weight))
  ELSE graph

\* relaxJoint without the test of the joint's length
relaxJointAnyLength(graph, joint) ==
  IF /\ joint.startMarkerId \in DOMAIN graph
     /\ joint.endMarkerId \in DOMAIN graph
  THEN correctNodes(graph, joint, graph[joint.startMarkerId], graph[joint.endMarkerId],
                    calculateDistance(graph[joint.startMarkerId].newPosition,
                                      graph[joint.endMarkerId].newPosition))
  ELSE graph

\* lines 76-111: the body of the joints.forEach of one pass
relaxJoint(graph, joint) ==
  IF /\ joint.startMarkerId \in DOMAIN graph
     /\ joint.endMarkerId \in DOMAIN graph
     /\ Gt(joint.length, Zero)
  THEN correctNodes(graph, joint, graph[joint.startMarkerId], graph[joint.endMarkerId],
                    calculateDistance(graph[joint.startMarkerId].newPosition,
                                      graph[joint.endMarkerId].newPosition))
  ELSE graph

RECURSIVE relaxPass(_, _, _)
\* line 75: joints.forEach over the whole topology, in order
relaxPass(graph, js, i) ==
  IF i > Len(js) THEN graph
  ELSE relaxPass(relaxJoint(graph, js[i]), js, i + 1)

RECURSIVE relaxTraceExtraPass(_, _, _)
\* relaxTrace with the loop test iter <= iterations: one pass too many
relaxTraceExtraPass(graph, js, iterations) ==
  IF iterations < 0 THEN <<graph>>
  ELSE <<graph>> \o relaxTraceExtraPass(relaxPass(graph, js, 1), js, iterations - 1)

RECURSIVE relaxTrace(_, _, _)
\* line 73: the working graph before the first pass and after each of the
\* `iterations` passes
relaxTrace(graph, js, iterations) ==
  IF iterations <= 0 THEN <<graph>>
  ELSE <<graph>> \o relaxTrace(relaxPass(graph, js, 1), js, iterations - 1)

\* writeNode storing a fresh sample at the relaxed position, the fields of the
\* old one not carried over
writeNodeAsNew(h, a, markerId, node) ==
  IF Has(h[a], markerId)
  THEN SetMarker(h, a, markerId, Sample(node.newPosition.x, node.newPosition.y, One, TRUE))
  ELSE h

\* lines 117-123: one relaxed position written to newFrame.markers
writeNode(h, a, markerId, node) ==
  IF Has(h[a], markerId)
  THEN SetMarker(h, a, markerId,
         [h[a][markerId] EXCEPT !.x = node.newPosition.x, !.y = node.newPosition.y])
  ELSE h

RECURSIVE writeGraph(_, _, _, _, _)
\* lines 116-124: Object.entries(graph).forEach
writeGraph(h, a, graph, ks, i) ==
  IF i > Len(ks) THEN h
  ELSE writeGraph(writeNode(h, a, ks[i], graph[ks[i]]), a, graph, ks, i + 1)

\* lines 115-126: the result, from the copy and the graphs of the passes
solveResult(c, passes, final) ==
  [heap |-> writeGraph(c.heap, c.frame.markers, final, SetToSeq(DOMAIN final), 1),
   frame |-> c.frame,
   passes |-> passes]

\* lines 73-113 in the copy c of the frame
solvePasses(c, passes) == solveResult(c, passes, passes[Len(passes)])

\* lines 38-70 in the copy c of the frame, whose markers are m
solveCopy(c, m, js, iterations) ==
  solvePasses(c, relaxTrace(addConnections(initGraph(m), m, js, 1), js, iterations))

applyLengthConstraints(h, frame, js, iterations) ==
  solveCopy(copyFrame(h, frame), h[frame.markers], js, iterations)

----------------------------------------------------------------------------
(* blendMarkerAndMarkerlessData *)

\* blendWeighted leaving the confidence of the marker-based sample in place
blendWeightedOwnConfidence(h, a, markerId, marker, markerlessMarker, markerWeight, markerlessWeight, totalWeight) ==
  IF Gt(totalWeight, Zero)
  THEN SetMarker(h, a, markerId,
         [marker EXCEPT
            !.x = Div(Add(Mul(marker.x, markerWeight),
                          Mul(markerlessMarker.x, markerlessWeight)),
                      totalWeight),
            !.y = Div(Add(Mul(marker.y, markerWeight),
                          Mul(markerlessMarker.y, markerlessWeight)),
                      totalWeight)])
  ELSE h

\* lines 154-162: the blended sample written when the total weight is > 0
blendWeighted(h, a, markerId, marker, markerlessMarker, markerWeight, markerlessWeight, totalWeight) ==
  IF Gt(totalWeight, Zero)
  THEN SetMarker(h, a, markerId,
         [marker EXCEPT
            !.x = Div(Add(Mul(marker.x, markerWeight),
                          Mul(markerlessMarker.x, markerlessWeight)),
                      totalWeight),
            !.y = Div(Add(Mul(marker.y, markerWeight),
                          Mul(markerlessMarker.y, markerlessWeight)),
                      totalWeight),
            !.confidence = MathMax(marker.confidence, markerlessMarker.confidence)])
  ELSE h

\* lines 150-152: the two weights and their sum
blendWeights(h, a, markerId, marker, markerlessMarker, markerWeight, markerlessWeight) ==
  blendWeighted(h, a, markerId, marker, markerlessMarker,
                markerWeight, markerlessWeight, Add(markerWeight, markerlessWeight))

\* blendMarker with the two weights exchanged
blendMarkerSwapped(h, a, markerId, marker, mm, blendRatio) ==
  IF Has(mm, markerId) /\ marker.isVisible /\ mm[markerId].isVisible
  THEN blendWeights(h, a, markerId, marker, mm[markerId],
                    Mul(marker.confidence, blendRatio),
                    Mul(mm[markerId].confidence, Sub(One, blendRatio)))
  ELSE h

\* lines 145-163: the body of the forEach for one entry [markerId, marker];
\* mm is markerlessFrame.markers
blendMarker(h, a, markerId, marker, mm, blendRatio) ==
  IF Has(mm, markerId) /\ marker.isVisible /\ mm[markerId].isVisible
  THEN blendWeights(h, a, markerId, marker, mm[markerId],
                    Mul(marker.confidence, Sub(One, blendRatio)),
                    Mul(mm[markerId].confidence, blendRatio))
  ELSE h

RECURSIVE blendMarkers(_, _, _, _, _, _, _)
\* line 144: Object.entries(markerFrame.markers), taken before the loop runs
blendMarkers(h, a, entries, ks, markerlessFrame, blendRatio, i) ==
  IF i > Len(ks) THEN h
  ELSE blendMarkers(
         blendMarker(h, a, ks[i], entries[ks[i]], h[markerlessFrame.markers], blendRatio),
         a, entries, ks, markerlessFrame, blendRatio, i + 1)

\* lines 143-166 in the copy c of markerFrame, whose entries are given
blendCopy(c, entries, markerlessFrame, blendRatio) ==
  [heap |-> blendMarkers(c.heap, c.frame.markers, entries, SetToSeq(DOMAIN entries),
                         markerlessFrame, blendRatio, 1),
   frame |-> c.frame]

\* blendMarkerAndMarkerlessData starting from a copy of the markerless frame
blendIntoMarkerless(h, markerFrame, markerlessFrame, blendRatio) ==
  blendCopy(copyFrame(h, markerlessFrame), h[markerFrame.markers], markerlessFrame,
            blendRatio)

blendMarkerAndMarkerlessData(h, markerFrame, markerlessFrame, blendRatio) ==
  blendCopy(copyFrame(h, markerFrame), h[markerFrame.markers], markerlessFrame, blendRatio)

----------------------------------------------------------------------------
(* fillMissingMarkers *)

\* the index of the first joint of js that touches marker id and has length > 0
\* (connectedJoints[0] of lines 191-201 and 255-263), 0 when there is none
RECURSIVE firstConnected(_, _, _)
firstConnected(js, id, i) ==
  IF i > Len(js) THEN 0
  ELSE IF /\ (js[i].startMarkerId = id \/ js[i].endMarkerId = id)
          /\ Gt(js[i].length, Zero)
       THEN i
       ELSE firstConnected(js, id, i + 1)

\* null, the estimatedPosition that was not found
NoEstimate == [ok |-> FALSE, x |-> Zero, y |-> Zero]

\* lines 218-235 (278-288): the estimate along the vector (vx, vy) of the given
\* magnitude
estimateAlong(known, vx, vy, magnitude, joint) ==
  IF Gt(magnitude, Zero)
  THEN [ok |-> TRUE,
        x |-> Add(known.x, Mul(Div(vx, magnitude), joint.length)),
        y |-> Add(known.y, Mul(Div(vy, magnitude), joint.length))]
  ELSE NoEstimate

\* lines 210-216 (271-276): the vector from the known end to the connected
\* marker and its magnitude
estimateVector(known, vx, vy, joint) ==
  estimateAlong(known, vx, vy, MathSqrt(Add(Mul(vx, vx), Mul(vy, vy))), joint)

\* estimateFrom taking the connected marker whether it is visible or not
estimateFromAny(m, known, connectedMarkerId, joint) ==
  IF Has(m, connectedMarkerId)
  THEN estimateVector(known, Sub(m[connectedMarkerId].x, known.x),
                      Sub(m[connectedMarkerId].y, known.y), joint)
  ELSE NoEstimate

\* lines 206-236 (268-289): the estimate from the marker at the other end of
\* the connected joint
estimateFrom(m, known, connectedMarkerId, joint) ==
  IF Has(m, connectedMarkerId) /\ m[connectedMarkerId].isVisible
  THEN estimateVector(known, Sub(m[connectedMarkerId].x, known.x),
                      Sub(m[connectedMarkerId].y, known.y), joint)
  ELSE NoEstimate

\* lines 201-204 (263-266): the other end of the connected joint
otherEnd(connectedJoint, knownId) ==
  IF connectedJoint.startMarkerId = knownId
  THEN connectedJoint.endMarkerId
  ELSE connectedJoint.startMarkerId

\* lines 199-237 (262-290): the estimate, given the index ci of
\* connectedJoints[0] in the topology (0 when connectedJoints is empty)
estimateVia(m, js, joint, knownId, ci) ==
  IF ci = 0 THEN NoEstimate
  ELSE estimateFrom(m, m[knownId], otherEnd(js[ci], knownId), joint)

\* lines 190-237 (and their copy 255-290): the position estimated for the
\* missing end of `joint` from its visible end knownId; ok = FALSE is null
estimatePosition(m, js, joint, knownId) ==
  estimateVia(m, js, joint, knownId, firstConnected(js, knownId, 1))

\* addEstimate storing the estimate only when newFrame.markers has none yet
addEstimateOnce(st, a, markerId, e) ==
  IF e.ok /\ ~Has(st.heap[a], markerId)
  THEN [heap |-> SetMarker(st.heap, a, markerId, Sample(e.x, e.y, Half, TRUE)),
        processed |-> st.processed \cup {markerId}]
  ELSE st

\* lines 240-249 (292-301): the estimate e, when there is one, stored as
\* newFrame.markers[markerId]
addEstimate(st, a, markerId, e) ==
  IF e.ok
  THEN [heap |-> SetMarker(st.heap, a, markerId, Sample(e.x, e.y, Half, TRUE)),
        processed |-> st.processed \cup {markerId}]
  ELSE st

\* lines 183-302: the body of the joints.forEach for one joint; st is the heap
\* and the processedMarkers set, m is frame.markers, a is newFrame.markers
fillJoint(st, m, a, js, joint) ==
  IF /\ Has(m, joint.startMarkerId) /\ ~Has(m, joint.endMarkerId)
     /\ m[joint.startMarkerId].isVisible /\ Gt(joint.length, Zero)
  THEN addEstimate(st, a, joint.endMarkerId,
                   estimatePosition(m, js, joint, joint.startMarkerId))
  ELSE IF /\ Has(m, joint.endMarkerId) /\ ~Has(m, joint.startMarkerId)
          /\ m[joint.endMarkerId].isVisible /\ Gt(joint.length, Zero)
  THEN addEstimate(st, a, joint.startMarkerId,
                   estimatePosition(m, js, joint, joint.endMarkerId))
  ELSE st

RECURSIVE fillJoints(_, _, _, _, _)
\* line 182: joints.forEach, each joint reading frame.markers as it is then
fillJoints(st, frame, a, js, i) ==
  IF i > Len(js) THEN st
  ELSE fillJoints(fillJoint(st, st.heap[frame.markers], a, js, js[i]),
                  frame, a, js, i + 1)

\* lines 179-305 in the copy c of the frame
fillCopy(c, st) == [heap |-> st.heap, frame |-> c.frame, processed |-> st.processed]

\* lines 173-176: the copy the joints are filled into
fillInto(c, frame, js) ==
  fillCopy(c, fillJoints([heap |-> c.heap, processed |-> {}],
                         frame, c.frame.markers, js, 1))

fillMissingMarkers(h, frame, js) == fillInto(copyFrame(h, frame), frame, js)

----------------------------------------------------------------------------
(* applyTemporalSmoothing *)

MinInt(a, b) == IF a < b THEN a ELSE b

MaxInt(a, b) == IF a > b THEN a ELSE b

RECURSIVE windowSums(_, _, _, _, _, _)
\* lines 559-568: the sums over frames j..windowEnd (1-based) for one marker
windowSums(h, frames, markerId, j, windowEnd, acc) ==
  IF j > windowEnd THEN acc
  ELSE
    LET m == h[frames[j].markers]
    IN  windowSums(h, frames, markerId, j + 1, windowEnd,
          IF Has(m, markerId) /\ m[markerId].isVisible
          THEN [sumX |-> Add(acc.sumX, Mul(m[markerId].x, m[markerId].confidence)),
                sumY |-> Add(acc.sumY, Mul(m[markerId].y, m[markerId].confidence)),
                sumConfidence |-> Add(acc.sumConfidence, m[markerId].confidence),
                count |-> acc.count + 1]
          ELSE acc)

\* writeMean dividing the weighted sums by the number of samples
writeMeanByCount(h, a, markerId, cur, s) ==
  IF s.count > 0 /\ Gt(s.sumConfidence, Zero)
  THEN SetMarker(h, a, markerId,
         Sample(Div(s.sumX, Num(s.count)), Div(s.sumY, Num(s.count)),
                cur.confidence, cur.isVisible))
  ELSE h

\* writeMean without the test of the confidence sum
writeMeanOfAnySum(h, a, markerId, cur, s) ==
  IF s.count > 0
  THEN SetMarker(h, a, markerId,
         Sample(Div(s.sumX, s.sumConfidence), Div(s.sumY, s.sumConfidence),
                cur.confidence, cur.isVisible))
  ELSE h

\* lines 571-578: the weighted mean written when the window held data; cur is
\* frames[i].markers[markerId]
writeMean(h, a, markerId, cur, s) ==
  IF s.count > 0 /\ Gt(s.sumConfidence, Zero)
  THEN SetMarker(h, a, markerId,
         Sample(Div(s.sumX, s.sumConfidence), Div(s.sumY, s.sumConfidence),
                cur.confidence, cur.isVisible))
  ELSE h

\* smoothMarker with a window that starts at frame i itself
smoothMarkerAhead(h, frames, i, a, markerId, windowSize) ==
  writeMean(h, a, markerId, h[frames[i].markers][markerId],
    windowSums(h, frames, markerId,
               i,
               MinInt(Len(frames) - 1, (i - 1) + Floor(windowSize, 2)) + 1,
               [sumX |-> Zero, sumY |-> Zero, sumConfidence |-> Zero, count |-> 0]))

\* lines 549-578: the body of the forEach for one marker of frame i (1-based;
\* the code's index is i - 1)
smoothMarker(h, frames, i, a, markerId, windowSize) ==
  writeMean(h, a, markerId, h[frames[i].markers][markerId],
    windowSums(h, frames, markerId,
               MaxInt(0, (i - 1) - Floor(windowSize, 2)) + 1,
               MinInt(Len(frames) - 1, (i - 1) + Floor(windowSize, 2)) + 1,
               [sumX |-> Zero, sumY |-> Zero, sumConfidence |-> Zero, count |-> 0]))

RECURSIVE smoothMarkers(_, _, _, _, _, _, _)
\* line 548: Object.keys(frames[i].markers), taken before the loop runs
smoothMarkers(h, frames, i, a, ks, windowSize, n) ==
  IF n > Len(ks) THEN h
  ELSE smoothMarkers(smoothMarker(h, frames, i, a, ks[n], windowSize),
                     frames, i, a, ks, windowSize, n + 1)

\* lines 547-581: frame i smoothed into its copy c
smoothFrame(c, frames, i, windowSize) ==
  smoothMarkers(c.heap, frames, i, c.frame.markers,
                SetToSeq(DOMAIN c.heap[frames[i].markers]), windowSize, 1)

RECURSIVE smoothFrames(_, _, _, _, _)

\* lines 542-581: one turn of the loop, with the copy c of frames[i]
smoothTurn(c, frames, windowSize, i, smoothedFrames) ==
  smoothFrames(smoothFrame(c, frames, i, windowSize),
               frames, windowSize, i + 1, Append(smoothedFrames, c.frame))

\* lines 541-582: the loop over the frames, pushing each new frame
smoothFrames(h, frames, windowSize, i, smoothedFrames) ==
  IF i > Len(frames) THEN [heap |-> h, frames |-> smoothedFrames]
  ELSE smoothTurn(copyFrame(h, frames[i]), frames, windowSize, i, smoothedFrames)

\* applyTemporalSmoothing reading windowSize as the radius of the window, with
\* no early return for a small window
applyTemporalSmoothingRadius(h, frames, windowSize) ==
  IF Len(frames) <= 1
  THEN [heap |-> h, frames |-> frames]
  ELSE smoothFrames(h, frames, 2 * windowSize + 1, 1, <<>>)

applyTemporalSmoothing(h, frames, windowSize) ==
  IF Len(frames) <= 1 \/ windowSize <= 1
  THEN [heap |-> h, frames |-> frames]
  ELSE smoothFrames(h, frames, windowSize, 1, <<>>)

----------------------------------------------------------------------------
(* synchronizeData *)

RECURSIVE movementSums(_, _, _, _, _)
\* lines 373-381: total displacement and number of the markers visible in both
\* frames[i] and frames[i-1] (1-based i >= 2)
movementSums(cur, prev, ks, n, acc) ==
  IF n > Len(ks) THEN acc
  ELSE movementSums(cur, prev, ks, n + 1,
         IF Has(prev, ks[n]) /\ cur[ks[n]].isVisible /\ prev[ks[n]].isVisible
         THEN [totalMovement |-> Add(acc.totalMovement,
                                     calculateDistance(cur[ks[n]], prev[ks[n]])),
               numMarkers |-> acc.numMarkers + 1]
         ELSE acc)

\* line 383: the mean displacement of one adjacent pair, 0 without markers
meanMovement(s) ==
  IF s.numMarkers > 0 THEN Div(s.totalMovement, Num(s.numMarkers)) ELSE Zero

\* lines 370-383: the movement between frames whose markers are cur and prev
pairMovement(cur, prev) ==
  meanMovement(movementSums(cur, prev, SetToSeq(DOMAIN cur), 1,
                            [totalMovement |-> Zero, numMarkers |-> 0]))

RECURSIVE calculateMovement(_, _, _)
\* lines 366-387: the motion magnitude series, one entry per adjacent pair
calculateMovement(h, frames, i) ==
  IF i > Len(frames) THEN <<>>
  ELSE <<pairMovement(h[frames[i].markers], h[frames[i - 1].markers])>>
         \o calculateMovement(h, frames, i + 1)

RECURSIVE correlationSums(_, _, _, _, _, _)
\* lines 405-414: the products summed for one offset (i is the code's 0-based
\* i, so markerIdx = i and markerlessIdx = i + offset)
correlationSums(markerMovements, markerlessMovements, offset, syncWindowSize, i, acc) ==
  IF i >= syncWindowSize THEN acc
  ELSE correlationSums(markerMovements, markerlessMovements, offset, syncWindowSize, i + 1,
         IF /\ i >= 0 /\ i < Len(markerMovements)
            /\ i + offset >= 0 /\ i + offset < Len(markerlessMovements)
         THEN [correlation |-> Add(acc.correlation,
                                   Mul(markerMovements[i + 1],
                                       markerlessMovements[i + offset + 1])),
               count |-> acc.count + 1]
         ELSE acc)

\* lines 416-417: correlation /= count
meanCorrelation(s) ==
  IF s.count > 0
  THEN [correlation |-> Div(s.correlation, Num(s.count)), count |-> s.count]
  ELSE s

\* lines 402-417: the average product for one offset; count = 0 when no index
\* is valid
correlationAt(markerMovements, markerlessMovements, offset, syncWindowSize) ==
  meanCorrelation(correlationSums(markerMovements, markerlessMovements, offset,
                                  syncWindowSize, 0,
                                  [correlation |-> Zero, count |-> 0]))

\* keepBest replacing the best offset also by an offset of equal score
keepBestOrEqual(best, offset, c) ==
  IF c.count > 0 /\ ~Lt(c.correlation, best.bestCorrelation)
  THEN [bestOffset |-> offset, bestCorrelation |-> c.correlation]
  ELSE best

\* lines 416-423: the best offset so far after the score c of `offset`
keepBest(best, offset, c) ==
  IF c.count > 0 /\ Gt(c.correlation, best.bestCorrelation)
  THEN [bestOffset |-> offset, bestCorrelation |-> c.correlation]
  ELSE best

RECURSIVE scanOffsets(_, _, _, _, _, _)
\* lines 401-424: the scan of the offsets from `offset` up to maxOffset
scanOffsets(markerMovements, markerlessMovements, syncWindowSize, offset, maxOffset, best) ==
  IF offset > maxOffset THEN best
  ELSE scanOffsets(markerMovements, markerlessMovements, syncWindowSize,
                   offset + 1, maxOffset,
                   keepBest(best, offset,
                            correlationAt(markerMovements, markerlessMovements,
                                          offset, syncWindowSize)))

\* lines 393-424: the search over -maxOffset..maxOffset
scanFrom(markerMovements, markerlessMovements, syncWindowSize, maxOffset) ==
  scanOffsets(markerMovements, markerlessMovements, syncWindowSize,
              -maxOffset, maxOffset,
              [bestOffset |-> 0, bestCorrelation |-> NegInf]).bestOffset

\* lines 389-424: the offset the search settles on
findBestOffset(h, markerFrames, markerlessFrames, syncWindowSize) ==
  scanFrom(calculateMovement(h, markerFrames, 2),
           calculateMovement(h, markerlessFrames, 2),
           syncWindowSize,
           MinInt(Floor(Len(markerFrames), 4), Floor(Len(markerlessFrames), 4)))

\* Array.prototype.slice(n) for 0 <= n
Slice(frames, n) == SubSeq(frames, n + 1, Len(frames))

\* trimBy dropping the leading frames from the other sequence
trimByOther(markerFrames, markerlessFrames, bestOffset) ==
  IF bestOffset > 0
  THEN [markerFrames |-> markerFrames,
        markerlessFrames |-> Slice(markerlessFrames, bestOffset),
        bestOffset |-> bestOffset, searched |-> TRUE]
  ELSE IF bestOffset < 0
  THEN [markerFrames |-> Slice(markerFrames, -bestOffset),
        markerlessFrames |-> markerlessFrames,
        bestOffset |-> bestOffset, searched |-> TRUE]
  ELSE [markerFrames |-> markerFrames, markerlessFrames |-> markerlessFrames,
        bestOffset |-> 0, searched |-> TRUE]

\* lines 427-442: the sequences trimmed by the offset found
trimBy(markerFrames, markerlessFrames, bestOffset) ==
  IF bestOffset > 0
  THEN [markerFrames |-> Slice(markerFrames, bestOffset),
        markerlessFrames |-> markerlessFrames,
        bestOffset |-> bestOffset, searched |-> TRUE]
  ELSE IF bestOffset < 0
  THEN [markerFrames |-> markerFrames,
        markerlessFrames |-> Slice(markerlessFrames, -bestOffset),
        bestOffset |-> bestOffset, searched |-> TRUE]
  ELSE [markerFrames |-> markerFrames, markerlessFrames |-> markerlessFrames,
        bestOffset |-> 0, searched |-> TRUE]

synchronizeData(h, markerFrames, markerlessFrames, syncWindowSize) ==
  IF Len(markerFrames) < syncWindowSize \/ Len(markerlessFrames) < syncWindowSize
  THEN [markerFrames |-> markerFrames, markerlessFrames |-> markerlessFrames,
        bestOffset |-> 0, searched |-> FALSE]
  ELSE trimBy(markerFrames, markerlessFrames,
              findBestOffset(h, markerFrames, markerlessFrames, syncWindowSize))

----------------------------------------------------------------------------
(* The state: two frame sequences and a topology held by a caller, and the *)
(* last call made on them with its result.                                 *)

\* the largest iteration count, window size and compare window a call is given
MaxIter == 3
MaxWindow == 5

Frame(n, a) == [frameNumber |-> n, timestamp |-> n, markers |-> a]

NoCall == [op |-> "none", i |-> 0, n |-> 0, r |-> Zero, a |-> "A", b |-> "A"]

\* the result of a call; failed is set by a call that ends in a throw, which no
\* statement of the five operations does
NoOut == [frames |-> <<>>, frames2 |-> <<>>, passes |-> <<>>, bestOffset |-> 0, failed |-> FALSE]

\* a caller's data: the marker maps of the frames of both sequences, laid out on
\* the heap in order, and the topology
InitWith(mapsA, mapsB, js) ==
  /\ heap = mapsA \o mapsB
  /\ seqA = [i \in 1..Len(mapsA) |-> Frame(i - 1, i)]
  /\ seqB = [i \in 1..Len(mapsB) |-> Frame(i - 1, Len(mapsA) + i)]
  /\ joints = js
  /\ orig = [heap |-> mapsA \o mapsB,
             seqA |-> [i \in 1..Len(mapsA) |-> Frame(i - 1, i)],
             seqB |-> [i \in 1..Len(mapsB) |-> Frame(i - 1, Len(mapsA) + i)],
             joints |-> js]
  /\ call = NoCall
  /\ out = NoOut

\* the caller's data as they are now, the result of the last call dropped; a
\* call starts from this heap (call.op = "none")
Base == [a \in DOMAIN orig.heap |-> heap[a]]

Seq_(name) == IF name = "A" THEN seqA ELSE seqB

Solve(i, n) ==
  /\ call.op = "none"
  /\ i \in 1..Len(seqA)
  /\ LET r == applyLengthConstraints(heap, seqA[i], joints, n)
     IN  /\ heap' = r.heap
         /\ out' = [NoOut EXCEPT !.frames = <<r.frame>>, !.passes = r.passes]
  /\ call' = [NoCall EXCEPT !.op = "solve", !.i = i, !.n = n]
  /\ UNCHANGED <<seqA, seqB, joints, orig>>

FillMissing(i) ==
  /\ call.op = "none"
  /\ i \in 1..Len(seqA)
  /\ LET r == fillMissingMarkers(heap, seqA[i], joints)
     IN  /\ heap' = r.heap
         /\ out' = [NoOut EXCEPT !.frames = <<r.frame>>]
  /\ call' = [NoCall EXCEPT !.op = "fillMissing", !.i = i]
  /\ UNCHANGED <<seqA, seqB, joints, orig>>

Smooth(w) ==
  /\ call.op = "none"
  /\ LET r == applyTemporalSmoothing(heap, seqA, w)
     IN  /\ heap' = r.heap
         /\ out' = [NoOut EXCEPT !.frames = r.frames]
  /\ call' = [NoCall EXCEPT !.op = "smooth", !.n = w]
  /\ UNCHANGED <<seqA, seqB, joints, orig>>

Fuse(i, ratio) ==
  /\ call.op = "none"
  /\ i \in 1..MinInt(Len(seqA), Len(seqB))
  /\ LET r == blendMarkerAndMarkerlessData(heap, seqA[i], seqB[i], ratio)
     IN  /\ heap' = r.heap
         /\ out' = [NoOut EXCEPT !.frames = <<r.frame>>]
  /\ call' = [NoCall EXCEPT !.op = "fuse", !.i = i, !.r = ratio]
  /\ UNCHANGED <<seqA, seqB, joints, orig>>

Align(a, b, w) ==
  /\ call.op = "none"
  /\ LET r == synchronizeData(heap, Seq_(a), Seq_(b), w)
     IN  out' = [NoOut EXCEPT !.frames = r.markerFrames,
                              !.frames2 = r.markerlessFrames,
                              !.bestOffset = r.bestOffset]
  /\ heap' = heap
  /\ call' = [NoCall EXCEPT !.op = "align", !.n = w, !.a = a, !.b = b]
  /\ UNCHANGED <<seqA, seqB, joints, orig>>

\* the caller drops the result of the last call and keeps its own data
Return ==
  /\ call.op # "none"
  /\ heap' = Base
  /\ call' = NoCall
  /\ out' = NoOut
  /\ UNCHANGED <<seqA, seqB, joints, orig>>

----------------------------------------------------------------------------
(* Inputs *)

\* a marker of a frame is absent (<<>>) or present with a sample (<<s>>)
Absent == <<>>

Opt(S) == {<<s>> : s \in S}

Samples(P, Cs, Vs) == {Sample(p.x, p.y, c, v) : p \in P, c \in Cs, v \in Vs}

MakeMap(oa, ob, oc, od) ==
  LET o == [A |-> oa, B |-> ob, C |-> oc, D |-> od]
  IN  [k \in {j \in Keys : o[j] # <<>>} |-> o[k][1]]

MarkerMaps(OA, OB, OC, OD) ==
  {MakeMap(oa, ob, oc, od) : oa \in OA, ob \in OB, oc \in OC, od \in OD}

\* the sequences of at most n members of S
SeqsUpTo(S, n) == UNION {[1..k -> S] : k \in 0..n}

\* points of the line through (0,0) and (3,4): all their distances are rational
Pt(k) == [x |-> Num(3 * k), y |-> Num(4 * k)]

SolveConfidences == {Zero, Half, One}

SolveFrames ==
  MarkerMaps(Opt(Samples({Pt(0)}, SolveConfidences, BOOLEAN)) \cup {Absent},
             Opt(Samples({Pt(0), Pt(1)}, SolveConfidences, BOOLEAN)) \cup {Absent},
             Opt(Samples({Pt(2)}, SolveConfidences, BOOLEAN)) \cup {Absent},
             {Absent})

SolveTopologies ==
  { <<>>,
    <<Joint("A", "B", Num(10))>>,
    <<Joint("A", "B", Num(5))>>,
    <<Joint("B", "A", Num(2))>>,
    <<Joint("A", "B", Zero)>>,
    <<Joint("A", "B", Num(10)), Joint("B", "C", Num(5))>>,
    <<Joint("C", "B", Num(10)), Joint("A", "C", Num(-5)), Joint("A", "B", Num(5))>> }

InitSolve ==
  \E m \in SolveFrames, js \in SolveTopologies : InitWith(<<m>>, <<>>, js)

NextSolve ==
  \/ \E i \in 1..Len(seqA), n \in (-1)..MaxIter : Solve(i, n)
  \/ Return

SpecSolve == InitSolve /\ [][NextSolve]_vars

\* integer points; the ones used lie on the corners of a 3 x 4 rectangle, whose
\* distances are all rational
P(x, y) == [x |-> Num(x), y |-> Num(y)]

FillFrames ==
  MarkerMaps(Opt(Samples({Pt(0)}, {One}, BOOLEAN)) \cup {Absent},
             Opt(Samples({Pt(1)}, {One}, BOOLEAN)) \cup {Absent},
             Opt(Samples({Pt(1), Pt(-1), Pt(0)}, {Half}, {TRUE}))
               \cup Opt(Samples({Pt(1)}, {Half}, {FALSE})) \cup {Absent},
             {Absent})

FillJoints ==
  { Joint("A", "B", Num(10)), Joint("B", "A", Num(10)), Joint("A", "C", Num(5)),
    Joint("C", "A", Num(-5)), Joint("A", "B", Zero) }

\* the longest topology of the estimator's inputs
MaxJoints == 2

InitFill ==
  \E m \in FillFrames, js \in SeqsUpTo(FillJoints, MaxJoints) : InitWith(<<m>>, <<>>, js)

NextFill ==
  \/ \E i \in 1..Len(seqA) : FillMissing(i)
  \/ Return

SpecFill == InitFill /\ [][NextFill]_vars

\* the longest sequence given to the smoothing filter
MaxFrames == 3

SmoothSamples ==
  Samples({P(3, 4)}, {Zero, Half, One}, {TRUE})
    \cup {Sample(Zero, Zero, One, TRUE), Sample(Num(3), Num(4), One, FALSE)}

SmoothMaps == MarkerMaps(Opt(SmoothSamples) \cup {Absent}, {Absent}, {Absent}, {Absent})

\* the first frame may carry a second marker the other frames lack
WithB(maps, ob) ==
  IF Len(maps) = 0 \/ ob = <<>> THEN maps
  ELSE [i \in 1..Len(maps) |-> IF i = 1 THEN ("B" :> ob[1]) @@ maps[i] ELSE maps[i]]

InitSmooth ==
  \E maps \in SeqsUpTo(SmoothMaps, MaxFrames),
     ob \in {Absent, <<Sample(Num(1), Num(1), One, TRUE)>>} :
    InitWith(WithB(maps, ob), <<>>, <<>>)

NextSmooth ==
  \/ \E w \in (-1)..MaxWindow : Smooth(w)
  \/ Return

SpecSmooth == InitSmooth /\ [][NextSmooth]_vars

FuseConfidences == {Zero, Half, One}

PrimaryMaps ==
  MarkerMaps(Opt(Samples({P(0, 0), P(3, 4)}, FuseConfidences, BOOLEAN)) \cup {Absent},
             {Absent, <<Sample(Num(1), Num(1), Half, TRUE)>>},
             {Absent}, {Absent})

SecondaryMaps ==
  MarkerMaps(Opt(Samples({P(3, 4), P(3, 0)}, FuseConfidences, BOOLEAN)) \cup {Absent},
             {Absent, <<Sample(Num(3), Num(1), One, TRUE)>>},
             {Absent, <<Sample(Num(5), Num(5), One, TRUE)>>},
             {Absent})

BlendRatios == {Zero, Half, One, Frac(1, 4), Num(2), Num(-1)}

InitFuse ==
  \E mp \in PrimaryMaps, ms \in SecondaryMaps : InitWith(<<mp>>, <<ms>>, <<>>)

NextFuse ==
  \/ \E i \in 1..Len(seqA), r \in BlendRatios : Fuse(i, r)
  \/ Return

SpecFuse == InitFuse /\ [][NextFuse]_vars

\* the number of frames of the sequences given to the synchronizer
AlignFrames == 4

RECURSIVE Walk(_, _, _)
\* the marker maps of a sequence in which marker A starts at x and moves along
\* the x axis by steps[1], steps[2], ...
Walk(x, steps, i) ==
  <<MakeMap(<<Sample(Num(x), Zero, One, TRUE)>>, Absent, Absent, Absent)>>
    \o (IF i > Len(steps) THEN <<>> ELSE Walk(x + steps[i], steps, i + 1))

Walks(S, n) == {Walk(0, st, 1) : st \in [1..(n - 1) -> S]}

\* the sequences of n frames in which marker A rests at the origin and then,
\* from some frame on, moves by 2 per frame
Starts(n) == {Walk(0, [i \in 1..(n - 1) |-> IF i >= k THEN 2 ELSE 0], 1) : k \in 1..n}

InitAlign ==
  \E ma \in Walks({0, 1, 3}, AlignFrames), mb \in Starts(AlignFrames) :
    InitWith(ma, mb, <<>>)

NextAlign ==
  \/ \E b \in {"A", "B"}, w \in (-1)..MaxWindow : Align("A", b, w)
  \/ Return

SpecAlign == InitAlign /\ [][NextAlign]_vars

----------------------------------------------------------------------------
(* All operations on all the inputs *)

Init == InitSolve \/ InitFill \/ InitSmooth \/ InitFuse \/ InitAlign

Next ==
  \/ \E i \in 1..Len(seqA), n \in (-1)..MaxIter : Solve(i, n)
  \/ \E i \in 1..Len(seqA) : FillMissing(i)
  \/ \E w \in (-1)..MaxWindow : Smooth(w)
  \/ \E i \in 1..Len(seqA), r \in BlendRatios : Fuse(i, r)
  \/ \E b \in {"A", "B"}, w \in (-1)..MaxWindow : Align("A", b, w)
  \/ Return

Spec == Init /\ [][Next]_vars

----------------------------------------------------------------------------
(* All operations on inputs that hold invisible samples *)

\* the marker maps of a sequence with every sample of frame k made invisible
Hide(maps, k) ==
  [i \in 1..Len(maps) |->
     IF i = k THEN [j \in DOMAIN maps[i] |-> [maps[i][j] EXCEPT !.isVisible = FALSE]]
     ELSE maps[i]]

HiddenWalks(S, n) == {Hide(ma, k) : ma \in Walks(S, n), k \in 1..n}

InitHiddenWalks ==
  \E ma \in HiddenWalks({0, 1, 3}, AlignFrames) :
    InitWith(ma, Walk(0, [i \in 1..(AlignFrames - 1) |-> 2], 1), <<>>)

HasInvisible == \E a \in DOMAIN heap : \E k \in DOMAIN heap[a] : ~heap[a][k].isVisible

InitHidden ==
  \/ (InitSolve \/ InitFill \/ InitSmooth \/ InitFuse) /\ HasInvisible
  \/ InitHiddenWalks

SpecHidden == InitHidden /\ [][Next]_vars

----------------------------------------------------------------------------
(* Observations of the last call *)

\* the sequence a call was given under the name "A" or "B", as it was then
InSeq(name) == IF name = "A" THEN orig.seqA ELSE orig.seqB

\* the frame a solve, fillMissing or fuse call was given, and its markers as
\* they were when the call was made
InFrame == orig.seqA[call.i]

InMarkers == orig.heap[InFrame.markers]

\* the markers of the j-th frame returned
OutMarkers(j) == heap[out.frames[j].markers]

\* a <= b on numbers that are not NaN
Le(a, b) == a = b \/ Lt(a, b)

----------------------------------------------------------------------------
(* Solver properties *)

\* C1: solve called with iterations = 0 returns a frame equal to its input:
\* the same marker keys with the same x, y, confidence and isVisible, and the
\* same frameNumber and timestamp, for every frame and every topology.
C1_ZeroIterationsIsNoOp ==
  (call.op = "solve" /\ call.n = 0) =>
    /\ Len(out.frames) = 1
    /\ OutMarkers(1) = InMarkers
    /\ out.frames[1].frameNumber = InFrame.frameNumber
    /\ out.frames[1].timestamp = InFrame.timestamp

\* a call with iterations = 0 on a frame whose first joint is stretched: both
\* endpoints visible with positive confidence, 5 apart, target length 10
C1_Witness ==
  /\ call.op = "solve" /\ call.n = 0
  /\ orig.joints = <<Joint("A", "B", Num(10))>>
  /\ DOMAIN InMarkers = {"A", "B"}
  /\ InMarkers["A"].isVisible /\ InMarkers["B"].isVisible
  /\ InMarkers["A"].confidence = One /\ InMarkers["B"].confidence = Half
  /\ calculateDistance(InMarkers["A"], InMarkers["B"]) = Num(5)
  /\ OutMarkers(1) = InMarkers

\* a solve call on a topology of one joint between two different markers that
\* are both visible in the frame
OneJointCall ==
  /\ call.op = "solve"
  /\ Len(orig.joints) = 1
  /\ orig.joints[1].startMarkerId # orig.joints[1].endMarkerId
  /\ Has(InMarkers, orig.joints[1].startMarkerId)
  /\ Has(InMarkers, orig.joints[1].endMarkerId)
  /\ InMarkers[orig.joints[1].startMarkerId].isVisible
  /\ InMarkers[orig.joints[1].endMarkerId].isVisible

\* the two endpoints of that joint before the call and in the frame returned
StartIn == InMarkers[orig.joints[1].startMarkerId]
EndIn == InMarkers[orig.joints[1].endMarkerId]
StartOut == OutMarkers(1)[orig.joints[1].startMarkerId]
EndOut == OutMarkers(1)[orig.joints[1].endMarkerId]

\* one pass took the endpoints from distance d to d + (L - d)/2, by equal and
\* opposite displacements along the line that joins them
HalfwayMove ==
  /\ calculateDistance(StartOut, EndOut)
       = Add(calculateDistance(StartIn, EndIn),
             Div(Sub(orig.joints[1].length, calculateDistance(StartIn, EndIn)), Num(2)))
  /\ Sub(StartOut.x, StartIn.x) = Neg(Sub(EndOut.x, EndIn.x))
  /\ Sub(StartOut.y, StartIn.y) = Neg(Sub(EndOut.y, EndIn.y))
  /\ Mul(Sub(StartOut.x, StartIn.x), Sub(EndIn.y, StartIn.y))
       = Mul(Sub(StartOut.y, StartIn.y), Sub(EndIn.x, StartIn.x))

\* C4 as stated: one pass over a single joint whose endpoints are visible with
\* equal confidence moves their distance from d to d + (L - d)/2, both endpoints
\* displaced by equal amounts in opposite directions along the joining line.
C4_EqualConfidenceHalfway ==
  (OneJointCall /\ call.n = 1 /\ StartIn.confidence = EndIn.confidence)
    => HalfwayMove

\* C4, amended: the same, for a joint of length L > 0 whose endpoints are at
\* distinct positions (d > 0) and have equal positive confidence.
C4_EqualPositiveConfidenceHalfway ==
  (/\ OneJointCall /\ call.n = 1
   /\ StartIn.confidence = EndIn.confidence
   /\ Gt(StartIn.confidence, Zero)
   /\ Gt(orig.joints[1].length, Zero)
   /\ Gt(calculateDistance(StartIn, EndIn), Zero))
    => HalfwayMove

\* the scenario A = (0,0), B = (3,4), confidence 1 each, L = 10, one pass: the
\* distance returned is 7.5
C4_Witness ==
  /\ OneJointCall /\ call.n = 1
  /\ orig.joints[1] = Joint("A", "B", Num(10))
  /\ InMarkers["A"] = Sample(Zero, Zero, One, TRUE)
  /\ InMarkers["B"] = Sample(Num(3), Num(4), One, TRUE)
  /\ calculateDistance(StartOut, EndOut) = Frac(15, 2)

\* |distance - L| of the joint's endpoints in the working graph after k - 1
\* passes (k = 1 is the graph before the first pass)
DistanceAt(k) ==
  calculateDistance(out.passes[k][orig.joints[1].startMarkerId].newPosition,
                    out.passes[k][orig.joints[1].endMarkerId].newPosition)

ErrorAt(k) == AbsNum(Sub(DistanceAt(k), orig.joints[1].length))

\* a solve call on one joint with L > 0 between two visible markers of
\* positive confidence
PositiveJointCall ==
  /\ OneJointCall
  /\ Gt(orig.joints[1].length, Zero)
  /\ Gt(StartIn.confidence, Zero)
  /\ Gt(EndIn.confidence, Zero)

\* C5 as stated: |distance - L| never grows from one pass to the next, strictly
\* decreases on every pass until distance = L, and at distance = L further
\* passes change nothing.
C5_StrictlyDecreasingUntilL ==
  PositiveJointCall =>
    \A k \in 1..(Len(out.passes) - 1) :
      /\ Le(ErrorAt(k + 1), ErrorAt(k))
      /\ DistanceAt(k) # orig.joints[1].length => Lt(ErrorAt(k + 1), ErrorAt(k))
      /\ DistanceAt(k) = orig.joints[1].length => out.passes[k + 1] = out.passes[k]

\* C5, amended: |distance - L| never grows; it strictly decreases on every pass
\* that starts from a distance other than 0 and L; at distance L and at
\* distance 0 (coincident endpoints, which the solver skips) a pass changes
\* nothing.
C5_DecreasingExceptAtZero ==
  PositiveJointCall =>
    \A k \in 1..(Len(out.passes) - 1) :
      /\ Le(ErrorAt(k + 1), ErrorAt(k))
      /\ (DistanceAt(k) # orig.joints[1].length /\ DistanceAt(k) # Zero)
           => Lt(ErrorAt(k + 1), ErrorAt(k))
      /\ (DistanceAt(k) = orig.joints[1].length \/ DistanceAt(k) = Zero)
           => out.passes[k + 1] = out.passes[k]

\* three passes from distance 5 towards L = 10 with unequal confidences, the
\* error shrinking on each
C5_Witness ==
  /\ PositiveJointCall /\ call.n = 3
  /\ StartIn.confidence # EndIn.confidence
  /\ ErrorAt(1) = Num(5)
  /\ Lt(ErrorAt(4), ErrorAt(3)) /\ Lt(ErrorAt(3), ErrorAt(2)) /\ Lt(ErrorAt(2), ErrorAt(1))

----------------------------------------------------------------------------
(* Synchronizer properties *)

\* C2 as stated: align called with the same sequence as both arguments and any
\* compareWindow selects offset 0 and returns both sequences whole, dropping no
\* leading frame from either, static and accelerating sequences included.
C2_SelfAlignKeepsBoth ==
  (call.op = "align" /\ call.a = call.b) =>
    /\ out.bestOffset = 0
    /\ out.frames = InSeq(call.a)
    /\ out.frames2 = InSeq(call.b)

\* a static sequence aligned with itself loses its first frame on one side
C2_StaticWitness ==
  /\ call.op = "align" /\ call.a = "A" /\ call.b = "A"
  /\ \A i \in 1..Len(orig.seqA) :
       orig.heap[orig.seqA[i].markers] = orig.heap[orig.seqA[1].markers]
  /\ out.bestOffset = -1
  /\ out.frames = orig.seqA
  /\ out.frames2 = Slice(orig.seqA, 1)

----------------------------------------------------------------------------
(* Estimator properties *)

\* the frame of C3: A and C visible at different positions, B present but
\* invisible, topology A-B (10) then A-C (5)
C3_Scenario ==
  /\ call.op = "fillMissing"
  /\ orig.joints = <<Joint("A", "B", Num(10)), Joint("A", "C", Num(5))>>
  /\ DOMAIN InMarkers = {"A", "B", "C"}
  /\ InMarkers["A"].isVisible /\ InMarkers["C"].isVisible
  /\ ~InMarkers["B"].isVisible
  /\ Gt(calculateDistance(InMarkers["A"], InMarkers["C"]), Zero)

\* C3 as stated: in that frame fillMissing returns B at A + 10 * unit(A -> C),
\* with confidence 0.5 and isVisible = true.
C3_InvisibleEndIsSynthesized ==
  C3_Scenario =>
    /\ OutMarkers(1)["B"].x
         = Add(InMarkers["A"].x,
               Mul(Div(Sub(InMarkers["C"].x, InMarkers["A"].x),
                       calculateDistance(InMarkers["A"], InMarkers["C"])), Num(10)))
    /\ OutMarkers(1)["B"].y
         = Add(InMarkers["A"].y,
               Mul(Div(Sub(InMarkers["C"].y, InMarkers["A"].y),
                       calculateDistance(InMarkers["A"], InMarkers["C"])), Num(10)))
    /\ calculateDistance(InMarkers["A"], OutMarkers(1)["B"]) = Num(10)
    /\ OutMarkers(1)["B"].confidence = Half
    /\ OutMarkers(1)["B"].isVisible

\* the frame of C3 comes back as it went in
C3_UnchangedWitness == C3_Scenario /\ OutMarkers(1) = InMarkers

----------------------------------------------------------------------------
(* Smoothing properties *)

\* the markers of the i-th frame a smooth call was given
SmoothIn(i) == orig.heap[orig.seqA[i].markers]

\* C6: smooth with windowSize = 1 returns a sequence equal to its input, frame
\* by frame and marker by marker, for every input sequence.
C6_WindowOneIsIdentity ==
  (call.op = "smooth" /\ call.n = 1) =>
    /\ Len(out.frames) = Len(orig.seqA)
    /\ \A i \in 1..Len(orig.seqA) :
         /\ OutMarkers(i) = SmoothIn(i)
         /\ out.frames[i].frameNumber = orig.seqA[i].frameNumber
         /\ out.frames[i].timestamp = orig.seqA[i].timestamp

\* a call with windowSize = 1 on three frames whose marker moves, so that any
\* averaging over neighbours would show
C6_Witness ==
  /\ call.op = "smooth" /\ call.n = 1
  /\ Len(orig.seqA) = 3
  /\ \A i \in 1..3 : Has(SmoothIn(i), "A") /\ SmoothIn(i)["A"].isVisible
                     /\ Gt(SmoothIn(i)["A"].confidence, Zero)
  /\ SmoothIn(1)["A"].x # SmoothIn(2)["A"].x
  /\ SmoothIn(2)["A"].x # SmoothIn(3)["A"].x
  /\ \A i \in 1..3 : OutMarkers(i) = SmoothIn(i)

\* every frame that has key k reports the same position for it
ConstantPositions ==
  \A i \in 1..Len(orig.seqA), j \in 1..Len(orig.seqA) :
    \A k \in DOMAIN SmoothIn(i) \cap DOMAIN SmoothIn(j) :
      SmoothIn(i)[k].x = SmoothIn(j)[k].x /\ SmoothIn(i)[k].y = SmoothIn(j)[k].y

\* C7: when every frame reports the same position for each marker key, whatever
\* the confidences and visibilities, smooth with any window size returns those
\* same positions in every frame.
C7_ConstantInputIsFixed ==
  (call.op = "smooth" /\ ConstantPositions) =>
    /\ Len(out.frames) = Len(orig.seqA)
    /\ \A i \in 1..Len(orig.seqA) :
         \A k \in DOMAIN SmoothIn(i) :
           /\ Has(OutMarkers(i), k)
           /\ OutMarkers(i)[k].x = SmoothIn(i)[k].x
           /\ OutMarkers(i)[k].y = SmoothIn(i)[k].y

\* three frames at one position away from the origin with confidences 0.5, 1,
\* 0.5, smoothed with window 3 into new frames
C7_Witness ==
  /\ call.op = "smooth" /\ call.n = 3 /\ ConstantPositions
  /\ Len(orig.seqA) = 3
  /\ \A i \in 1..3 : Has(SmoothIn(i), "A") /\ SmoothIn(i)["A"].isVisible
  /\ SmoothIn(1)["A"].x = Num(3)
  /\ SmoothIn(1)["A"].confidence = Half
  /\ SmoothIn(2)["A"].confidence = One
  /\ SmoothIn(3)["A"].confidence = Half
  /\ out.frames[2].markers # orig.seqA[2].markers
  /\ OutMarkers(2)["A"].x = Num(3)

----------------------------------------------------------------------------
(* Fusion properties *)

\* the markers of the secondary frame a fuse call was given
SecondaryIn == orig.heap[orig.seqB[call.i].markers]

\* C8: fuse with blendRatio = 0 returns, for every key of primary whose primary
\* confidence is > 0, exactly primary's x and y, whatever secondary contains.
C8_RatioZeroKeepsPrimary ==
  (call.op = "fuse" /\ call.r = Zero) =>
    \A k \in DOMAIN InMarkers :
      Gt(InMarkers[k].confidence, Zero) =>
        /\ Has(OutMarkers(1), k)
        /\ OutMarkers(1)[k].x = InMarkers[k].x
        /\ OutMarkers(1)[k].y = InMarkers[k].y

\* a blend at ratio 0 of a key visible in both frames at different positions:
\* the sample was rewritten (it took secondary's larger confidence) and kept
\* primary's position
C8_Witness ==
  /\ call.op = "fuse" /\ call.r = Zero
  /\ Has(InMarkers, "A") /\ Has(SecondaryIn, "A")
  /\ InMarkers["A"].isVisible /\ SecondaryIn["A"].isVisible
  /\ InMarkers["A"].confidence = Half /\ SecondaryIn["A"].confidence = One
  /\ InMarkers["A"].x # SecondaryIn["A"].x
  /\ OutMarkers(1)["A"].confidence = One
  /\ OutMarkers(1)["A"].x = InMarkers["A"].x

----------------------------------------------------------------------------
(* Properties of all operations *)

\* C9: none of solve, fillMissing, smooth, fuse and align modifies its
\* arguments: after any call, and after any sequence of calls on the same
\* inputs, every input frame's marker map, every input frame list and every
\* joint of the topology is what it was before.
C9_ArgumentsNeverModified ==
  /\ seqA = orig.seqA
  /\ seqB = orig.seqB
  /\ joints = orig.joints
  /\ \A a \in DOMAIN orig.heap : heap[a] = orig.heap[a]

\* a solve call that moved a marker in the frame it returned and left the
\* frame it was given as it was
C9_Witness ==
  /\ call.op = "solve"
  /\ out.frames[1].markers # InFrame.markers
  /\ OutMarkers(1) # InMarkers
  /\ heap[InFrame.markers] = InMarkers

\* C10: the frame solve returns has exactly the keys of its input frame; frame
\* i returned by smooth has exactly the keys of input frame i; the frame fuse
\* returns has exactly the keys of primary; the frame fillMissing returns has
\* at least the keys of its input frame.
C10_KeySets ==
  /\ call.op = "solve" => DOMAIN OutMarkers(1) = DOMAIN InMarkers
  /\ call.op = "smooth" =>
       /\ Len(out.frames) = Len(orig.seqA)
       /\ \A i \in 1..Len(orig.seqA) : DOMAIN OutMarkers(i) = DOMAIN SmoothIn(i)
  /\ call.op = "fuse" => DOMAIN OutMarkers(1) = DOMAIN InMarkers
  /\ call.op = "fillMissing" => DOMAIN InMarkers \subseteq DOMAIN OutMarkers(1)

\* a fuse call whose secondary frame has a key primary lacks, and a key of
\* primary blended
C10_Witness ==
  /\ call.op = "fuse"
  /\ DOMAIN SecondaryIn \ DOMAIN InMarkers # {}
  /\ OutMarkers(1) # InMarkers
  /\ DOMAIN OutMarkers(1) = DOMAIN InMarkers

----------------------------------------------------------------------------
(* Invisible samples *)

\* an invisible sample as a second run is given it: moved by (3, 4) when
\* how = "moved", with another confidence when how = "rated"; a visible sample
\* is the same in both runs
Disguise(sample, how) ==
  IF sample.isVisible THEN sample
  ELSE IF how = "moved"
  THEN [sample EXCEPT !.x = Add(@, Num(3)), !.y = Add(@, Num(4))]
  ELSE [sample EXCEPT !.confidence = IF @ = One THEN Half ELSE One]

\* the caller's marker maps as the second run is given them
DisguisedHeap(how) ==
  [a \in DOMAIN orig.heap |->
     [k \in DOMAIN orig.heap[a] |-> Disguise(orig.heap[a][k], how)]]

\* the markers of the frame a result r holds, and of its j-th frame
ResultMarkers(r) == r.heap[r.frame.markers]

ResultMarkersAt(r, j) == r.heap[r.frames[j].markers]

\* the positions of the keys visible in `given` are the same in m1 and m2
SameVisiblePositions(given, m1, m2) ==
  \A k \in DOMAIN given :
    given[k].isVisible =>
      /\ Has(m1, k) /\ Has(m2, k)
      /\ m1[k].x = m2[k].x /\ m1[k].y = m2[k].y

\* the keys added to `given` are the same in m1 and m2, with the same samples
SameSynthesized(given, m1, m2) ==
  /\ DOMAIN m1 \ DOMAIN given = DOMAIN m2 \ DOMAIN given
  /\ \A k \in DOMAIN m1 \ DOMAIN given : m1[k] = m2[k]

\* the last call and the same call on the disguised inputs agree on what
\* visible samples determine
SameAsDisguised(how) ==
  /\ call.op = "solve" =>
       SameVisiblePositions(InMarkers, OutMarkers(1),
         ResultMarkers(applyLengthConstraints(DisguisedHeap(how), InFrame,
                                              orig.joints, call.n)))
  /\ call.op = "fillMissing" =>
       /\ SameVisiblePositions(InMarkers, OutMarkers(1),
            ResultMarkers(fillMissingMarkers(DisguisedHeap(how), InFrame, orig.joints)))
       /\ SameSynthesized(InMarkers, OutMarkers(1),
            ResultMarkers(fillMissingMarkers(DisguisedHeap(how), InFrame, orig.joints)))
  /\ call.op = "smooth" =>
       \A i \in 1..Len(orig.seqA) :
         SameVisiblePositions(orig.heap[orig.seqA[i].markers], OutMarkers(i),
           ResultMarkersAt(applyTemporalSmoothing(DisguisedHeap(how), orig.seqA, call.n), i))
  /\ call.op = "fuse" =>
       SameVisiblePositions(InMarkers, OutMarkers(1),
         ResultMarkers(blendMarkerAndMarkerlessData(DisguisedHeap(how), InFrame,
                                                    orig.seqB[call.i], call.r)))
  /\ call.op = "align" =>
       synchronizeData(DisguisedHeap(how), InSeq(call.a), InSeq(call.b),
                       call.n).bestOffset = out.bestOffset

\* C11: in solve, fillMissing, smooth, fuse and align an invisible sample is
\* never used as position data: a second run whose inputs differ only in the x,
\* y or confidence of invisible samples returns the same position for every
\* marker visible in the input, the same synthesized markers and, for align,
\* the same offset.
C11_InvisibleSamplesUnused == SameAsDisguised("moved") /\ SameAsDisguised("rated")

\* a solve call that moved visible endpoints of a joint while another joint of
\* the topology ends in an invisible marker
C11_Witness ==
  /\ call.op = "solve" /\ call.n >= 1
  /\ orig.joints = <<Joint("A", "B", Num(10)), Joint("B", "C", Num(5))>>
  /\ DOMAIN InMarkers = {"A", "B", "C"}
  /\ InMarkers["A"].isVisible /\ InMarkers["B"].isVisible /\ ~InMarkers["C"].isVisible
  /\ OutMarkers(1)["B"].x # InMarkers["B"].x
  /\ OutMarkers(1)["C"] = InMarkers["C"]

----------------------------------------------------------------------------
(* Invalid arguments *)

\* the last call was given an argument outside its meaningful range: a window
\* size of 0 or less, a negative iteration count, a negative compare window
InvalidArgumentCall ==
  \/ call.op = "smooth" /\ call.n <= 0
  \/ call.op = "solve" /\ call.n < 0
  \/ call.op = "align" /\ call.n < 0

\* C12: smoothing with a window size of 0 or less, solving with a negative
\* iteration count and aligning with a negative compare window each end in an
\* invalid-argument failure.
C12_InvalidArgumentsFail == InvalidArgumentCall => out.failed

\* a smoothing call with window size 0 returned the sequence it was given
C12_SmoothWitness ==
  /\ call.op = "smooth" /\ call.n = 0 /\ Len(orig.seqA) = 3
  /\ ~out.failed /\ out.frames = orig.seqA


----------------------------------------------------------------------------
(* Two endpoints of confidence 0 *)

\* joint j of the topology has length > 0 and connects two visible markers of
\* the input frame that both have confidence 0 and are at distinct positions
ZeroConfidenceJoint(j) ==
  /\ Gt(orig.joints[j].length, Zero)
  /\ Has(InMarkers, orig.joints[j].startMarkerId)
  /\ Has(InMarkers, orig.joints[j].endMarkerId)
  /\ InMarkers[orig.joints[j].startMarkerId].isVisible
  /\ InMarkers[orig.joints[j].endMarkerId].isVisible
  /\ InMarkers[orig.joints[j].startMarkerId].confidence = Zero
  /\ InMarkers[orig.joints[j].endMarkerId].confidence = Zero
  /\ Gt(calculateDistance(InMarkers[orig.joints[j].startMarkerId],
                          InMarkers[orig.joints[j].endMarkerId]), Zero)

\* every position of the frame returned is a finite number
FinitePositions ==
  \A k \in DOMAIN OutMarkers(1) : IsFinite(OutMarkers(1)[k].x) /\ IsFinite(OutMarkers(1)[k].y)

\* C13: a solve call with one pass or more on a frame and topology that hold
\* such a joint returns a frame in which every position is a well-defined
\* number, never NaN.
C13_ZeroConfidencePositionsDefined ==
  (/\ call.op = "solve" /\ call.n >= 1
   /\ \E j \in 1..Len(orig.joints) : ZeroConfidenceJoint(j))
    => FinitePositions

\* A = (0,0) and B = (3,4), both visible with confidence 0, joined with L = 10:
\* one pass leaves both at NaN
C13_NaNWitness ==
  /\ call.op = "solve" /\ call.n = 1
  /\ orig.joints = <<Joint("A", "B", Num(10))>>
  /\ Has(InMarkers, "A") /\ Has(InMarkers, "B")
  /\ InMarkers["A"] = Sample(Zero, Zero, Zero, TRUE)
  /\ InMarkers["B"] = Sample(Num(3), Num(4), Zero, TRUE)
  /\ IsNaN(OutMarkers(1)["A"].x) /\ IsNaN(OutMarkers(1)["A"].y)
  /\ IsNaN(OutMarkers(1)["B"].x) /\ IsNaN(OutMarkers(1)["B"].y)

----------------------------------------------------------------------------
(* The estimator's anchors, as the specification describes them *)

Touches(i, k) == orig.joints[i].startMarkerId = k \/ orig.joints[i].endMarkerId = k

\* the joints other than joint j that have length > 0 and touch marker k
OtherJoints(j, k) ==
  {i \in 1..Len(orig.joints) : i # j /\ Touches(i, k) /\ Gt(orig.joints[i].length, Zero)}

\* the first of them in topology order
AnchorJoint(j, k) == CHOOSE i \in OtherJoints(j, k) : \A i2 \in OtherJoints(j, k) : i <= i2

\* the endpoint of joint i that is not k
FarEnd(i, k) ==
  IF orig.joints[i].startMarkerId = k THEN orig.joints[i].endMarkerId
  ELSE orig.joints[i].startMarkerId

\* joint j has a qualifying anchor at its known endpoint k: the first other
\* joint touching k leads to a marker that is visible in the input frame, at a
\* position different from k's
QualifyingAnchor(j, k) ==
  /\ OtherJoints(j, k) # {}
  /\ Has(InMarkers, FarEnd(AnchorJoint(j, k), k))
  /\ InMarkers[FarEnd(AnchorJoint(j, k), k)].isVisible
  /\ Gt(calculateDistance(InMarkers[k], InMarkers[FarEnd(AnchorJoint(j, k), k)]), Zero)

\* joint j has length > 0, its endpoint k is visible in the input frame and k
\* has a qualifying anchor
KnownEnd(j, k) ==
  /\ Gt(orig.joints[j].length, Zero)
  /\ Touches(j, k) /\ FarEnd(j, k) # k
  /\ Has(InMarkers, k) /\ InMarkers[k].isVisible
  /\ QualifyingAnchor(j, k)

\* C14: when a joint with length > 0 has one endpoint visible, the other
\* present in the frame with isVisible = false, and a qualifying visible
\* anchor, the frame returned by fillMissing holds a synthesized sample for
\* that other endpoint: visible, with confidence 0.5.
C14_InvisibleEndTreatedAsAbsent ==
  call.op = "fillMissing" =>
    \A j \in 1..Len(orig.joints) : \A k \in Keys :
      (/\ KnownEnd(j, k)
       /\ Has(InMarkers, FarEnd(j, k))
       /\ ~InMarkers[FarEnd(j, k)].isVisible)
        => /\ OutMarkers(1)[FarEnd(j, k)].isVisible
           /\ OutMarkers(1)[FarEnd(j, k)].confidence = Half

\* topology A-C (5) then A-B (10), A and C visible at different positions, B
\* present but invisible: the frame comes back as it went in
C14_UnchangedWitness ==
  /\ call.op = "fillMissing"
  /\ orig.joints = <<Joint("A", "C", Num(5)), Joint("A", "B", Num(10))>>
  /\ KnownEnd(2, "A")
  /\ Has(InMarkers, "B") /\ ~InMarkers["B"].isVisible
  /\ OutMarkers(1) = InMarkers

----------------------------------------------------------------------------
(* Which joint gives the anchor *)

\* the position at distance len from marker k of the input frame in the
\* direction of marker a
TowardsAnchor(k, a, len) ==
  [x |-> Add(InMarkers[k].x,
             Mul(Div(Sub(InMarkers[a].x, InMarkers[k].x),
                     calculateDistance(InMarkers[k], InMarkers[a])), len)),
   y |-> Add(InMarkers[k].y,
             Mul(Div(Sub(InMarkers[a].y, InMarkers[k].y),
                     calculateDistance(InMarkers[k], InMarkers[a])), len))]

\* the marker x of the frame returned is a synthesized sample at position p
SynthesizedAt(x, p) ==
  /\ Has(OutMarkers(1), x)
  /\ OutMarkers(1)[x].x = p.x /\ OutMarkers(1)[x].y = p.y
  /\ OutMarkers(1)[x].confidence = Half /\ OutMarkers(1)[x].isVisible

\* C15: for a joint J with known endpoint K and its other endpoint absent, the
\* anchor is the far end of the first joint in topology order that is not J,
\* has length > 0 and touches K; the absent marker is synthesized from it, also
\* when J precedes every other joint touching K.
C15_AnchorFromFirstOtherJoint ==
  call.op = "fillMissing" =>
    \A j \in 1..Len(orig.joints) : \A k \in Keys :
      (KnownEnd(j, k) /\ ~Has(InMarkers, FarEnd(j, k)))
        => SynthesizedAt(FarEnd(j, k),
                         TowardsAnchor(k, FarEnd(AnchorJoint(j, k), k), orig.joints[j].length))

\* topology A-B (10) then A-C (5), A and C visible at different positions, B
\* absent: joint A-B comes first among the joints touching A, and the frame
\* returned has no B
C15_SelfAnchorWitness ==
  /\ call.op = "fillMissing"
  /\ orig.joints = <<Joint("A", "B", Num(10)), Joint("A", "C", Num(5))>>
  /\ KnownEnd(1, "A") /\ AnchorJoint(1, "A") = 2
  /\ ~Has(InMarkers, "B")
  /\ ~Has(OutMarkers(1), "B")

----------------------------------------------------------------------------
(* The estimator called again on the frame it returned *)

\* the caller gives the frame of the last fillMissing call back to
\* fillMissing, with the same topology
FillResult ==
  /\ call.op = "fillMissing"
  /\ LET r == fillMissingMarkers(heap, out.frames[1], joints)
     IN  /\ heap' = r.heap
         /\ out' = [out EXCEPT !.frames = Append(@, r.frame)]
  /\ call' = [call EXCEPT !.op = "fillResult"]
  /\ UNCHANGED <<seqA, seqB, joints, orig>>

\* a chain A - B - C of joints, with a joint from A to D that can give A's
\* anchor: A is visible, B is absent, C is absent or visible, D is visible
\* away from A or at A's position, invisible or absent
ChainFrames ==
  MarkerMaps(Opt(Samples({Pt(0)}, {One}, {TRUE})),
             {Absent},
             Opt(Samples({Pt(2)}, {One}, {TRUE})) \cup {Absent},
             Opt(Samples({Pt(-1), Pt(0)}, {One}, {TRUE}))
               \cup Opt(Samples({Pt(-1)}, {One}, {FALSE})) \cup {Absent})

ChainJoints ==
  { Joint("D", "A", Num(5)), Joint("A", "D", Num(5)), Joint("A", "B", Num(10)),
    Joint("B", "A", Num(5)), Joint("B", "C", Num(5)), Joint("C", "B", Num(5)) }

\* the longest topology of the chain inputs
MaxChain == 3

InitChain ==
  \E m \in ChainFrames, js \in SeqsUpTo(ChainJoints, MaxChain) : InitWith(<<m>>, <<>>, js)

NextChain ==
  \/ \E i \in 1..Len(seqA) : FillMissing(i)
  \/ FillResult
  \/ Return

SpecChain == InitChain /\ [][NextChain]_vars

\* joints ab and bc of the topology make a chain from A over B to C, both with
\* length > 0; of its markers only A is in the input frame, visible, and joint
\* ab has a qualifying anchor at A
ChainFromA(ab, bc) ==
  /\ Touches(ab, "A") /\ Touches(ab, "B")
  /\ Touches(bc, "B") /\ Touches(bc, "C")
  /\ Gt(orig.joints[bc].length, Zero)
  /\ ~Has(InMarkers, "B") /\ ~Has(InMarkers, "C")
  /\ KnownEnd(ab, "A")

\* C16: fillMissing reads every visibility and position from its input frame,
\* so on such a chain one call returns a frame with B and without C, and a
\* second call, on that frame, returns a frame with C.
C16_ChainNeedsTwoCalls ==
  call.op \in {"fillMissing", "fillResult"} =>
    \A ab, bc \in 1..Len(orig.joints) :
      ChainFromA(ab, bc) =>
        /\ Has(OutMarkers(1), "B") /\ OutMarkers(1)["B"].isVisible
        /\ ~Has(OutMarkers(1), "C")
        /\ call.op = "fillResult" => Has(OutMarkers(2), "C") /\ OutMarkers(2)["C"].isVisible

\* topology A-B (10), D-A (5), B-C (5) with A at (0,0) and D at (-3,-4)
\* visible: neither the first call nor the second adds a marker
C16_NoMarkerWitness ==
  /\ call.op = "fillResult"
  /\ orig.joints = <<Joint("A", "B", Num(10)), Joint("D", "A", Num(5)), Joint("B", "C", Num(5))>>
  /\ ChainFromA(1, 3)
  /\ OutMarkers(1) = InMarkers /\ OutMarkers(2) = InMarkers

----------------------------------------------------------------------------
(* Markers the estimator cannot place *)

\* no joint gives marker x a position: every joint touching x has length 0 or
\* less, or its other endpoint is absent or invisible, or that endpoint has no
\* qualifying anchor
NoJointPlaces(x) ==
  \A j \in 1..Len(orig.joints) :
    Touches(j, x) => ~KnownEnd(j, FarEnd(j, x))

\* C17: a marker that is missing from the input frame and that no joint can
\* place (the anchor joint's other endpoint is absent or invisible or at the
\* known endpoint's position, or no other joint with length > 0 touches the
\* known endpoint, or both endpoints of the joint are missing) is left as it
\* was by fillMissing: absent when it was absent, unchanged when it was
\* invisible.
C17_NoAnchorLeavesMissing ==
  call.op = "fillMissing" =>
    \A x \in Keys :
      NoJointPlaces(x) =>
        /\ ~Has(InMarkers, x) => ~Has(OutMarkers(1), x)
        /\ (Has(InMarkers, x) /\ ~InMarkers[x].isVisible) => OutMarkers(1)[x] = InMarkers[x]

\* topology A-C (5) then A-B (10), A visible, B absent and the anchor C
\* invisible: the frame returned has no B
C17_Witness ==
  /\ call.op = "fillMissing"
  /\ orig.joints = <<Joint("A", "C", Num(5)), Joint("A", "B", Num(10))>>
  /\ Has(InMarkers, "A") /\ InMarkers["A"].isVisible
  /\ Has(InMarkers, "C") /\ ~InMarkers["C"].isVisible
  /\ ~Has(InMarkers, "B")
  /\ NoJointPlaces("B")
  /\ ~Has(OutMarkers(1), "B")

----------------------------------------------------------------------------
(* What the solver leaves alone *)

\* marker k of the input frame is an endpoint of a joint with length > 0 whose
\* endpoints are both visible in the input frame
Constrained(k) ==
  \E j \in 1..Len(orig.joints) :
    /\ Touches(j, k)
    /\ Gt(orig.joints[j].length, Zero)
    /\ Has(InMarkers, orig.joints[j].startMarkerId)
    /\ Has(InMarkers, orig.joints[j].endMarkerId)
    /\ InMarkers[orig.joints[j].startMarkerId].isVisible
    /\ InMarkers[orig.joints[j].endMarkerId].isVisible

\* C18: in the frame solve returns, for any iteration count, every marker has
\* the confidence and isVisible of the input; every invisible marker, and every
\* visible marker that is not an endpoint of a joint with length > 0 between
\* two visible markers, has the x and y of the input.
C18_SolveFrameEffect ==
  call.op = "solve" =>
    \A k \in DOMAIN InMarkers :
      /\ Has(OutMarkers(1), k)
      /\ OutMarkers(1)[k].confidence = InMarkers[k].confidence
      /\ OutMarkers(1)[k].isVisible = InMarkers[k].isVisible
      /\ (~InMarkers[k].isVisible \/ ~Constrained(k))
           => /\ OutMarkers(1)[k].x = InMarkers[k].x
              /\ OutMarkers(1)[k].y = InMarkers[k].y

\* two passes over the one joint A-B (10) with A, B and C visible: A and B are
\* moved, C is where it was, and the confidences 1/2 of A and 0 of C are kept
C18_Witness ==
  /\ call.op = "solve" /\ call.n = 2
  /\ orig.joints = <<Joint("A", "B", Num(10))>>
  /\ DOMAIN InMarkers = {"A", "B", "C"}
  /\ \A k \in DOMAIN InMarkers : InMarkers[k].isVisible
  /\ InMarkers["A"].confidence = Half /\ InMarkers["C"].confidence = Zero
  /\ Constrained("A") /\ ~Constrained("C")
  /\ OutMarkers(1)["A"].x # InMarkers["A"].x
  /\ OutMarkers(1)["B"].x # InMarkers["B"].x
  /\ OutMarkers(1)["C"] = InMarkers["C"]
  /\ OutMarkers(1)["A"].confidence = Half

----------------------------------------------------------------------------
(* Joints without a length *)

\* the two operations that take a topology, on the inputs of both
InitTopology == InitSolve \/ InitFill

NextTopology ==
  \/ \E i \in 1..Len(seqA), n \in (-1)..MaxIter : Solve(i, n)
  \/ \E i \in 1..Len(seqA) : FillMissing(i)
  \/ Return

SpecTopology == InitTopology /\ [][NextTopology]_vars

HasLength(joint) == Gt(joint.length, Zero)

\* the topology of the call without its joints of length 0 or less
JointsWithLength == SelectSeq(orig.joints, HasLength)

\* the frame r.frame of result r holds the same data as the frame returned by
\* the call: the same fields and the same marker map
SameFrameAs(r) ==
  /\ r.frame.frameNumber = out.frames[1].frameNumber
  /\ r.frame.timestamp = out.frames[1].timestamp
  /\ ResultMarkers(r) = OutMarkers(1)

\* C19: a joint with length 0 or less has no effect on solve or fillMissing:
\* called with the topology without those joints, both return the same frame.
C19_JointsWithoutLengthIgnored ==
  /\ call.op = "solve" =>
       SameFrameAs(applyLengthConstraints(orig.heap, InFrame, JointsWithLength, call.n))
  /\ call.op = "fillMissing" =>
       SameFrameAs(fillMissingMarkers(orig.heap, InFrame, JointsWithLength))

\* two passes over the topology C-B (10), A-C (-5), A-B (5) with A, B and C
\* visible and A, C at different positions: the markers have moved
C19_Witness ==
  /\ call.op = "solve" /\ call.n = 2
  /\ orig.joints = <<Joint("C", "B", Num(10)), Joint("A", "C", Num(-5)), Joint("A", "B", Num(5))>>
  /\ Len(JointsWithLength) = 2
  /\ DOMAIN InMarkers = {"A", "B", "C"}
  /\ \A k \in DOMAIN InMarkers : InMarkers[k].isVisible /\ Gt(InMarkers[k].confidence, Zero)
  /\ OutMarkers(1)["A"].x # InMarkers["A"].x
  /\ OutMarkers(1)["C"].x # InMarkers["C"].x

----------------------------------------------------------------------------
(* The shares of one correction *)

\* the position of marker id in the working graph before pass k
NodeAt(k, id) == out.passes[k][id].newPosition

\* the displacement of marker id in pass k
MovedBy(k, id) ==
  [x |-> Sub(NodeAt(k + 1, id).x, NodeAt(k, id).x),
   y |-> Sub(NodeAt(k + 1, id).y, NodeAt(k, id).y)]

\* the vector from the start endpoint to the end endpoint before pass k
Connecting(k) ==
  [x |-> Sub(NodeAt(k, orig.joints[1].endMarkerId).x, NodeAt(k, orig.joints[1].startMarkerId).x),
   y |-> Sub(NodeAt(k, orig.joints[1].endMarkerId).y, NodeAt(k, orig.joints[1].startMarkerId).y)]

Scaled(v, f) == [x |-> Mul(v.x, f), y |-> Mul(v.y, f)]

SquaredLength(v) == Add(Mul(v.x, v.x), Mul(v.y, v.y))

\* (length - d)/d before pass k
CorrectionAt(k) == Div(Sub(orig.joints[1].length, DistanceAt(k)), DistanceAt(k))

\* 0.5 * correction * c/(cs + ce)
ShareAt(k, c) ==
  Mul(Mul(Half, CorrectionAt(k)), Div(c, Add(StartIn.confidence, EndIn.confidence)))

\* C20: in a correction of a joint from distance d > 0, with confidences cs of
\* the start and ce of the end, cs + ce > 0, the start endpoint is displaced
\* by -0.5 * correction * ce/(cs+ce) and the end endpoint by
\* +0.5 * correction * cs/(cs+ce) times the connecting vector, with
\* correction = (length - d)/d; the endpoint of lower confidence is displaced
\* at least as far as the other, and an endpoint whose partner has confidence
\* 0 stays where it was.
C20_SharesByPartnerConfidence ==
  (/\ OneJointCall
   /\ Gt(orig.joints[1].length, Zero)
   /\ Gt(Add(StartIn.confidence, EndIn.confidence), Zero))
    => \A k \in 1..(Len(out.passes) - 1) :
         Gt(DistanceAt(k), Zero) =>
           /\ MovedBy(k, orig.joints[1].startMarkerId)
                = Scaled(Connecting(k), Neg(ShareAt(k, EndIn.confidence)))
           /\ MovedBy(k, orig.joints[1].endMarkerId)
                = Scaled(Connecting(k), ShareAt(k, StartIn.confidence))
           /\ Le(StartIn.confidence, EndIn.confidence)
                => Le(SquaredLength(MovedBy(k, orig.joints[1].endMarkerId)),
                      SquaredLength(MovedBy(k, orig.joints[1].startMarkerId)))
           /\ Le(EndIn.confidence, StartIn.confidence)
                => Le(SquaredLength(MovedBy(k, orig.joints[1].startMarkerId)),
                      SquaredLength(MovedBy(k, orig.joints[1].endMarkerId)))
           /\ EndIn.confidence = Zero
                => NodeAt(k + 1, orig.joints[1].startMarkerId) = NodeAt(k, orig.joints[1].startMarkerId)
           /\ StartIn.confidence = Zero
                => NodeAt(k + 1, orig.joints[1].endMarkerId) = NodeAt(k, orig.joints[1].endMarkerId)

\* A = (0,0) with confidence 1/2 and B = (3,4) with confidence 1, joint A-B of
\* length 10, one pass: correction = 1, A is displaced by -1/3 and B by +1/6 of
\* the vector (3,4)
C20_Witness ==
  /\ OneJointCall /\ call.n = 1
  /\ orig.joints[1] = Joint("A", "B", Num(10))
  /\ InMarkers["A"] = Sample(Zero, Zero, Half, TRUE)
  /\ InMarkers["B"] = Sample(Num(3), Num(4), One, TRUE)
  /\ CorrectionAt(1) = One
  /\ StartOut.x = Num(-1) /\ StartOut.y = Frac(-4, 3)
  /\ EndOut.x = Frac(7, 2) /\ EndOut.y = Frac(14, 3)

----------------------------------------------------------------------------
(* The weighted mean of the smoothing window *)

\* the frames (1-based) of the window of frame i for the window size of the
\* call: the 0-based indices max(0, i - floor(w/2)) .. min(last, i + floor(w/2))
WindowOf(i) ==
  {j \in 1..Len(orig.seqA) :
     /\ j - 1 >= MaxInt(0, (i - 1) - Floor(call.n, 2))
     /\ j - 1 <= MinInt(Len(orig.seqA) - 1, (i - 1) + Floor(call.n, 2))}

\* the frames of that window in which key k is present and visible
VisibleIn(i, k) == {j \in WindowOf(i) : Has(SmoothIn(j), k) /\ SmoothIn(j)[k].isVisible}

RECURSIVE SumConfidence(_, _)
\* the sum of the confidences of key k over the frames S
SumConfidence(S, k) ==
  IF S = {} THEN Zero
  ELSE Add(SmoothIn(CHOOSE j \in S : TRUE)[k].confidence,
           SumConfidence(S \ {CHOOSE j \in S : TRUE}, k))

RECURSIVE SumWeightedX(_, _)
SumWeightedX(S, k) ==
  IF S = {} THEN Zero
  ELSE Add(Mul(SmoothIn(CHOOSE j \in S : TRUE)[k].x, SmoothIn(CHOOSE j \in S : TRUE)[k].confidence),
           SumWeightedX(S \ {CHOOSE j \in S : TRUE}, k))

RECURSIVE SumWeightedY(_, _)
SumWeightedY(S, k) ==
  IF S = {} THEN Zero
  ELSE Add(Mul(SmoothIn(CHOOSE j \in S : TRUE)[k].y, SmoothIn(CHOOSE j \in S : TRUE)[k].confidence),
           SumWeightedY(S \ {CHOOSE j \in S : TRUE}, k))

\* C21: smooth returns as many frames as it was given; a key of frame i that
\* has a visible sample of positive total confidence in the clipped window of
\* frame i is returned at sum(position * confidence) / sum(confidence) over the
\* visible samples of that window, with the confidence and isVisible of frame
\* i; a key with no visible sample in the window is returned as it was.
C21_WindowedWeightedMean ==
  call.op = "smooth" =>
    /\ Len(out.frames) = Len(orig.seqA)
    /\ \A i \in 1..Len(orig.seqA) : \A k \in DOMAIN SmoothIn(i) :
         /\ Has(OutMarkers(i), k)
         /\ (VisibleIn(i, k) # {} /\ Gt(SumConfidence(VisibleIn(i, k), k), Zero))
              => /\ OutMarkers(i)[k].x
                      = Div(SumWeightedX(VisibleIn(i, k), k), SumConfidence(VisibleIn(i, k), k))
                 /\ OutMarkers(i)[k].y
                      = Div(SumWeightedY(VisibleIn(i, k), k), SumConfidence(VisibleIn(i, k), k))
                 /\ OutMarkers(i)[k].confidence = SmoothIn(i)[k].confidence
                 /\ OutMarkers(i)[k].isVisible = SmoothIn(i)[k].isVisible
         /\ VisibleIn(i, k) = {} => OutMarkers(i)[k] = SmoothIn(i)[k]

\* A at (0,0) with confidence 1, then at (3,4) with confidence 1/2, then at
\* (3,4) with confidence 1, window 3: the first frame averages two samples to
\* (1, 4/3), the second three samples to (9/5, 12/5)
C21_Witness ==
  /\ call.op = "smooth" /\ call.n = 3 /\ Len(orig.seqA) = 3
  /\ \A i \in 1..3 : DOMAIN SmoothIn(i) = {"A"}
  /\ SmoothIn(1)["A"] = Sample(Zero, Zero, One, TRUE)
  /\ SmoothIn(2)["A"] = Sample(Num(3), Num(4), Half, TRUE)
  /\ SmoothIn(3)["A"] = Sample(Num(3), Num(4), One, TRUE)
  /\ WindowOf(1) = {1, 2} /\ WindowOf(2) = {1, 2, 3}
  /\ OutMarkers(1)["A"] = Sample(One, Frac(4, 3), One, TRUE)
  /\ OutMarkers(2)["A"] = Sample(Frac(9, 5), Frac(12, 5), Half, TRUE)

----------------------------------------------------------------------------
(* The blend of one key *)

\* wp = primary.confidence * (1 - blendRatio), ws = secondary.confidence *
\* blendRatio for key k of the call
PrimaryWeight(k) == Mul(InMarkers[k].confidence, Sub(One, call.r))
SecondaryWeight(k) == Mul(SecondaryIn[k].confidence, call.r)
WeightSum(k) == Add(PrimaryWeight(k), SecondaryWeight(k))

\* key k is present and visible in both frames
VisibleInBoth(k) ==
  /\ Has(InMarkers, k) /\ Has(SecondaryIn, k)
  /\ InMarkers[k].isVisible /\ SecondaryIn[k].isVisible

\* the sample returned for key k is at (primary.pos * wp + secondary.pos * ws) /
\* (wp + ws)
AtWeightedAverage(k) ==
  /\ OutMarkers(1)[k].x
       = Div(Add(Mul(InMarkers[k].x, PrimaryWeight(k)), Mul(SecondaryIn[k].x, SecondaryWeight(k))),
             WeightSum(k))
  /\ OutMarkers(1)[k].y
       = Div(Add(Mul(InMarkers[k].y, PrimaryWeight(k)), Mul(SecondaryIn[k].y, SecondaryWeight(k))),
             WeightSum(k))

\* C22: for a blendRatio in [0,1], fuse returns for each key of primary: when
\* the key is visible in both frames and wp + ws is not 0, the weighted average
\* position, confidence max(primary.confidence, secondary.confidence) and
\* primary's isVisible; in every other case primary's sample unchanged.
C22_BlendWithinUnitRatio ==
  (call.op = "fuse" /\ Le(Zero, call.r) /\ Le(call.r, One)) =>
    \A k \in DOMAIN InMarkers :
      /\ Has(OutMarkers(1), k)
      /\ (VisibleInBoth(k) /\ WeightSum(k) # Zero)
           => /\ AtWeightedAverage(k)
              /\ OutMarkers(1)[k].confidence
                   = MathMax(InMarkers[k].confidence, SecondaryIn[k].confidence)
              /\ OutMarkers(1)[k].isVisible = InMarkers[k].isVisible
      /\ ~(VisibleInBoth(k) /\ WeightSum(k) # Zero)
           => OutMarkers(1)[k] = InMarkers[k]

\* primary A at (0,0) with confidence 1/2, secondary A at (3,4) with
\* confidence 1, ratio 1/4: wp = 3/8, ws = 1/4, A is returned at (6/5, 8/5)
\* with confidence 1
C22_Witness ==
  /\ call.op = "fuse" /\ call.r = Frac(1, 4)
  /\ VisibleInBoth("A")
  /\ InMarkers["A"] = Sample(Zero, Zero, Half, TRUE)
  /\ SecondaryIn["A"] = Sample(Num(3), Num(4), One, TRUE)
  /\ OutMarkers(1)["A"] = Sample(Frac(6, 5), Frac(8, 5), One, TRUE)

\* C23: for a blendRatio outside [0,1] and a key visible in both frames, the
\* position returned is the same weighted average whenever wp + ws is not 0,
\* negative sums included; primary's sample is unchanged only when wp + ws = 0.
C23_ExtrapolatedBlend ==
  (call.op = "fuse" /\ (Lt(call.r, Zero) \/ Gt(call.r, One))) =>
    \A k \in DOMAIN InMarkers :
      VisibleInBoth(k) =>
        /\ WeightSum(k) # Zero => AtWeightedAverage(k)
        /\ WeightSum(k) = Zero => OutMarkers(1)[k] = InMarkers[k]

\* primary A at (0,0) with confidence 0, secondary A at (3,4) with confidence
\* 1, ratio -1: wp = 0, ws = -1, and A is returned as primary had it
C23_NegativeSumWitness ==
  /\ call.op = "fuse" /\ call.r = Num(-1)
  /\ VisibleInBoth("A")
  /\ InMarkers["A"] = Sample(Zero, Zero, Zero, TRUE)
  /\ SecondaryIn["A"] = Sample(Num(3), Num(4), One, TRUE)
  /\ WeightSum("A") = Num(-1)
  /\ OutMarkers(1)["A"] = InMarkers["A"]

----------------------------------------------------------------------------
(* The offsets the synchronizer scans *)

\* the call was an align call whose sequences both have compareWindow frames or
\* more, so that the offsets were scanned
Scanned ==
  /\ call.op = "align"
  /\ Len(InSeq(call.a)) >= call.n /\ Len(InSeq(call.b)) >= call.n

\* min(floor(|seqA|/4), floor(|seqB|/4))
MaxOffset == MinInt(Floor(Len(InSeq(call.a)), 4), Floor(Len(InSeq(call.b)), 4))

\* the motion series of the two sequences of the call
MotionA == calculateMovement(orig.heap, InSeq(call.a), 2)
MotionB == calculateMovement(orig.heap, InSeq(call.b), 2)

\* the average product of offset k and the number of products averaged
ScoreAt(k) == correlationAt(MotionA, MotionB, k, call.n)

\* the scanned offsets for which one product or more was averaged
Scored == {k \in (-MaxOffset)..MaxOffset : ScoreAt(k).count > 0}

\* offset best is one of the scored offsets, none of them has a greater
\* average product over the motion series ma and mb, and none with the same
\* average product comes before it
FirstGreatest(ma, mb, best) ==
  /\ best \in (-MaxOffset)..MaxOffset
  /\ correlationAt(ma, mb, best, call.n).count > 0
  /\ \A k \in (-MaxOffset)..MaxOffset :
       correlationAt(ma, mb, k, call.n).count > 0 =>
         /\ Le(correlationAt(ma, mb, k, call.n).correlation,
               correlationAt(ma, mb, best, call.n).correlation)
         /\ correlationAt(ma, mb, k, call.n).correlation
              = correlationAt(ma, mb, best, call.n).correlation
              => best <= k

\* some offset is scored
SomeScored(ma, mb) ==
  \E k \in (-MaxOffset)..MaxOffset : correlationAt(ma, mb, k, call.n).count > 0

\* the claim of C24 for the motion series ma and mb
FirstGreatestOf(ma, mb) == SomeScored(ma, mb) => FirstGreatest(ma, mb, out.bestOffset)

\* C24: align scans the offsets -maxOffset..maxOffset, maxOffset =
\* min(floor(|seqA|/4), floor(|seqB|/4)), and selects one whose average product
\* is the greatest of all; of several offsets with that greatest value it
\* selects the most negative, the first one scanned.
C24_FirstGreatestScore == Scanned => FirstGreatestOf(MotionA, MotionB)

\* a scan of the offsets -1, 0, 1 in which offsets 0 and 1 share the greatest
\* score, above that of offset -1: offset 0 is selected
C24_Witness ==
  /\ Scanned /\ MaxOffset = 1 /\ Scored = {-1, 0, 1}
  /\ ScoreAt(0).correlation = ScoreAt(1).correlation
  /\ Lt(ScoreAt(-1).correlation, ScoreAt(0).correlation)
  /\ out.bestOffset = 0

----------------------------------------------------------------------------
(* What the synchronizer returns *)

\* sequence s without its first k members, the others in their order
WithoutFirst(s, k) == [i \in 1..(Len(s) - k) |-> s[i + k]]

\* C25: align shortens at most one sequence, and only at its start: with a
\* winning offset k > 0 it returns seqA without its first k frames and seqB
\* whole, with k < 0 seqA whole and seqB without its first |k| frames, with
\* k = 0 both whole; the frames kept are in their order and as they were.
C25_TruncatesOneStart ==
  call.op = "align" =>
    /\ out.bestOffset > 0 =>
         /\ out.frames = WithoutFirst(InSeq(call.a), out.bestOffset)
         /\ out.frames2 = InSeq(call.b)
    /\ out.bestOffset < 0 =>
         /\ out.frames = InSeq(call.a)
         /\ out.frames2 = WithoutFirst(InSeq(call.b), -out.bestOffset)
    /\ out.bestOffset = 0 =>
         /\ out.frames = InSeq(call.a)
         /\ out.frames2 = InSeq(call.b)
    /\ \A a \in DOMAIN orig.heap : heap[a] = orig.heap[a]

\* an alignment of two different sequences that won with offset 1: the first
\* comes back from its second frame on, the second whole
C25_Witness ==
  /\ call.op = "align" /\ call.b = "B"
  /\ out.bestOffset = 1
  /\ Len(out.frames) = Len(orig.seqA) - 1
  /\ out.frames[1] = orig.seqA[2]
  /\ out.frames[Len(out.frames)] = orig.seqA[Len(orig.seqA)]
  /\ out.frames2 = orig.seqB

----------------------------------------------------------------------------
(* The score of one offset, as the specification describes it *)

\* the indices i (0-based) valid for offset k: i within the motion series ma
\* and i + k within the motion series mb
ValidIndices(ma, mb, k) ==
  {i \in 0..(Len(ma) - 1) : i + k >= 0 /\ i + k < Len(mb)}

\* the first compareWindow of them
FirstValid(ma, mb, k) ==
  {i \in ValidIndices(ma, mb, k) :
     Cardinality({j \in ValidIndices(ma, mb, k) : j < i}) < call.n}

RECURSIVE SumProducts(_, _, _, _)
\* the sum of ma[i] * mb[i + k] over the indices i of S
SumProducts(ma, mb, k, S) ==
  IF S = {} THEN Zero
  ELSE Add(Mul(ma[(CHOOSE i \in S : TRUE) + 1], mb[(CHOOSE i \in S : TRUE) + k + 1]),
           SumProducts(ma, mb, k, S \ {CHOOSE i \in S : TRUE}))

\* the score c of offset k averages the products of the indices S
AveragesOver(ma, mb, k, S, c) ==
  /\ c.count = Cardinality(S)
  /\ c.count > 0 => c.correlation = Div(SumProducts(ma, mb, k, S), Num(Cardinality(S)))

\* every scanned offset is scored over its first compareWindow valid indices
ScoredOverFirstValid(ma, mb) ==
  \A k \in (-MaxOffset)..MaxOffset :
    AveragesOver(ma, mb, k, FirstValid(ma, mb, k), correlationAt(ma, mb, k, call.n))

\* C26: the score of each candidate offset k is the average of motionA[i] *
\* motionB[i+k] over the first compareWindow valid indices i; for a negative k
\* these start at i = -k, and compareWindow products are averaged when that
\* many valid indices exist.
C26_ScoreOverFirstValidIndices == Scanned => ScoredOverFirstValid(MotionA, MotionB)

\* offset -1 with compareWindow 2 on sequences of four frames: the indices 1
\* and 2 are valid, and one product was averaged
C26_OneProductWitness ==
  /\ Scanned /\ call.n = 2 /\ call.b = "B"
  /\ Len(MotionA) = 3 /\ Len(MotionB) = 3
  /\ ValidIndices(MotionA, MotionB, -1) = {1, 2}
  /\ FirstValid(MotionA, MotionB, -1) = {1, 2}
  /\ ScoreAt(-1).count = 1
  /\ ScoreAt(-1).correlation = Mul(MotionA[2], MotionB[1])
  /\ ScoreAt(-1).correlation # Div(SumProducts(MotionA, MotionB, -1, {1, 2}), Num(2))

----------------------------------------------------------------------------
(* The confidence-weighted sum of the positions *)

\* the keys of the input frame whose samples are visible
VisibleKeys == {k \in DOMAIN InMarkers : InMarkers[k].isVisible}

RECURSIVE WeightedSumX(_, _)
\* the sum of confidence * x over the keys S of marker map m
WeightedSumX(m, S) ==
  IF S = {} THEN Zero
  ELSE Add(Mul(m[CHOOSE k \in S : TRUE].confidence, m[CHOOSE k \in S : TRUE].x),
           WeightedSumX(m, S \ {CHOOSE k \in S : TRUE}))

RECURSIVE WeightedSumY(_, _)
WeightedSumY(m, S) ==
  IF S = {} THEN Zero
  ELSE Add(Mul(m[CHOOSE k \in S : TRUE].confidence, m[CHOOSE k \in S : TRUE].y),
           WeightedSumY(m, S \ {CHOOSE k \in S : TRUE}))

\* C27: when every visible marker of the frame has positive confidence, solve
\* returns, for every topology and iteration count, a frame with the same sums
\* of confidence * x and of confidence * y over the visible markers.
C27_WeightedSumPreserved ==
  (/\ call.op = "solve"
   /\ \A k \in VisibleKeys : Gt(InMarkers[k].confidence, Zero))
    => /\ WeightedSumX(OutMarkers(1), VisibleKeys) = WeightedSumX(InMarkers, VisibleKeys)
       /\ WeightedSumY(OutMarkers(1), VisibleKeys) = WeightedSumY(InMarkers, VisibleKeys)

\* three passes over A-B (10) and B-C (5) with A, B and C visible and of
\* confidences 1/2, 1 and 1/2: every marker has moved, the sums are the same
C27_Witness ==
  /\ call.op = "solve" /\ call.n = 3
  /\ orig.joints = <<Joint("A", "B", Num(10)), Joint("B", "C", Num(5))>>
  /\ VisibleKeys = {"A", "B", "C"}
  /\ InMarkers["A"].confidence = Half /\ InMarkers["B"].confidence = One
  /\ InMarkers["C"].confidence = Half
  /\ \A k \in VisibleKeys : OutMarkers(1)[k].x # InMarkers[k].x
  /\ WeightedSumX(OutMarkers(1), VisibleKeys) = WeightedSumX(InMarkers, VisibleKeys)

----------------------------------------------------------------------------
(* The solver on lengths measured from the frame itself *)

\* the caller measures its topology in frame i of its sequence and goes on
\* with the list returned
InitializeJointLengths(i) ==
  /\ call.op = "none"
  /\ i \in 1..Len(seqA)
  /\ joints' = initializeJointLengths(heap, joints, seqA[i])
  /\ UNCHANGED <<heap, seqA, seqB, orig, call, out>>

NextMeasured ==
  \/ \E i \in 1..Len(seqA) : InitializeJointLengths(i)
  \/ \E i \in 1..Len(seqA), n \in (-1)..MaxIter : Solve(i, n)
  \/ Return

SpecMeasured == InitSolve /\ [][NextMeasured]_vars

\* the topology of the call is the caller's first topology measured in the
\* frame of the call
MeasuredInFrame == joints = initializeJointLengths(orig.heap, orig.joints, InFrame)

\* C28: for a frame whose visible markers have positive confidence, a joint
\* list J and n >= 0, solve on that frame with initializeJointLengths(J, frame)
\* returns every marker at the position it has in the frame.
C28_MeasuredFrameIsFixedPoint ==
  (/\ call.op = "solve" /\ call.n >= 0
   /\ MeasuredInFrame
   /\ \A k \in VisibleKeys : Gt(InMarkers[k].confidence, Zero))
    => \A k \in DOMAIN InMarkers :
         /\ Has(OutMarkers(1), k)
         /\ OutMarkers(1)[k].x = InMarkers[k].x
         /\ OutMarkers(1)[k].y = InMarkers[k].y

\* the topology A-B (10), B-C (5) measured in a frame with A at (0,0), B at
\* (3,4) and C at (6,8), all visible: both lengths became 5, and three passes
\* returned a new frame with the markers where they were
C28_Witness ==
  /\ call.op = "solve" /\ call.n = 3
  /\ orig.joints = <<Joint("A", "B", Num(10)), Joint("B", "C", Num(5))>>
  /\ joints = <<Joint("A", "B", Num(5)), Joint("B", "C", Num(5))>>
  /\ MeasuredInFrame
  /\ VisibleKeys = {"A", "B", "C"}
  /\ \A k \in VisibleKeys : Gt(InMarkers[k].confidence, Zero)
  /\ out.frames[1].markers # InFrame.markers
  /\ OutMarkers(1) = InMarkers

----------------------------------------------------------------------------
(* A window whose confidences sum to 0 *)

\* C29: when the window of frame i holds visible samples of a key and all of
\* them have confidence 0, smooth returns the sample of frame i for that key
\* as it was: nothing is divided by the confidence sum 0.
C29_ZeroConfidenceSumKeepsSample ==
  call.op = "smooth" =>
    \A i \in 1..Len(orig.seqA) : \A k \in DOMAIN SmoothIn(i) :
      (VisibleIn(i, k) # {} /\ SumConfidence(VisibleIn(i, k), k) = Zero)
        => OutMarkers(i)[k] = SmoothIn(i)[k]

\* three frames with A visible at confidence 0 in each, window 3: new frames
\* come back with the samples as they were
C29_Witness ==
  /\ call.op = "smooth" /\ call.n = 3 /\ Len(orig.seqA) = 3
  /\ \A i \in 1..3 : /\ Has(SmoothIn(i), "A") /\ SmoothIn(i)["A"].isVisible
                     /\ SmoothIn(i)["A"].confidence = Zero
  /\ VisibleIn(2, "A") = {1, 2, 3}
  /\ out.frames[2].markers # orig.seqA[2].markers
  /\ \A i \in 1..3 : OutMarkers(i)["A"] = SmoothIn(i)["A"]
  /\ IsFinite(OutMarkers(2)["A"].x)

----------------------------------------------------------------------------
(* Several joints that place one marker *)

\* joint j of the topology places the absent marker x from its other endpoint:
\* it has length > 0, that endpoint is visible in the input frame, and the
\* estimator finds a position for x
Places(j, x) ==
  /\ Touches(j, x) /\ FarEnd(j, x) # x
  /\ ~Has(InMarkers, x)
  /\ Gt(orig.joints[j].length, Zero)
  /\ Has(InMarkers, FarEnd(j, x)) /\ InMarkers[FarEnd(j, x)].isVisible
  /\ estimatePosition(InMarkers, orig.joints, orig.joints[j], FarEnd(j, x)).ok

\* the joints that place x
Placing(x) == {j \in 1..Len(orig.joints) : Places(j, x)}

\* the last of them in topology order
LastPlacing(x) == CHOOSE j \in Placing(x) : \A j2 \in Placing(x) : j2 <= j

\* the sample the estimate e makes
Synthesized(e) == Sample(e.x, e.y, Half, TRUE)

\* C30: when two joints or more each place the same absent marker in one
\* fillMissing call, the frame returned holds for that marker the sample
\* computed from the last of these joints in topology order; every key of the
\* input frame keeps its sample.
C30_LastJointWins ==
  call.op = "fillMissing" =>
    /\ \A x \in Keys :
         Cardinality(Placing(x)) >= 2 =>
           /\ Has(OutMarkers(1), x)
           /\ OutMarkers(1)[x]
                = Synthesized(estimatePosition(InMarkers, orig.joints,
                                               orig.joints[LastPlacing(x)],
                                               FarEnd(LastPlacing(x), x)))
    /\ \A k \in DOMAIN InMarkers : Has(OutMarkers(1), k) /\ OutMarkers(1)[k] = InMarkers[k]

\* topology D-A (5), A-B (10), B-A (5) with A at (0,0) and D at (-3,-4)
\* visible and B absent: joints 2 and 3 both place B, at distance 10 and at
\* distance 5 from A, and B is returned at (-3,-4), the estimate of joint 3
C30_Witness ==
  /\ call.op = "fillMissing"
  /\ orig.joints = <<Joint("D", "A", Num(5)), Joint("A", "B", Num(10)), Joint("B", "A", Num(5))>>
  /\ Placing("B") = {2, 3}
  /\ InMarkers["D"].x = Num(-3)
  /\ OutMarkers(1)["B"] = Sample(Num(-3), Num(-4), Half, TRUE)
  /\ OutMarkers(1)["A"] = InMarkers["A"]

====
